---------------------------- MODULE Spec2Model ----------------------------
(***************************************************************************)
(* Model of the citation-fusion server (package ckit): the nine-step       *)
(* pipeline of GET /id/{id} (handleLocalIdentifier), its cache, the        *)
(* holdings filter and the pooled snippet structs, GET /doi/{doi}          *)
(* (handleDOI), and applyInstitutionFilter and mapToLocal called on their  *)
(* own; two requests in flight with step (7) split at the call of          *)
(* Cache.Set (SpecConc); and step (5) of the older handler of              *)
(* tools/spindel (SpecSpindel).                                            *)
(*                                                                         *)
(* Abstractions.                                                           *)
(*  - A blob (json.RawMessage) is a record of the two things the server    *)
(*    can observe in its bytes: the value of its "institution" member and  *)
(*    the number that follows a literal "took": key inside it (the site    *)
(*    the cache path's regular expression matches).                        *)
(*  - An element of a Response array carries, beside the blob, the row     *)
(*    (lid, doi) it was produced for; that pair is bookkeeping of the      *)
(*    model, the server keeps the bytes only.                              *)
(*  - The rows of a query come in table order; the iteration order of a    *)
(*    set.Set is arbitrary.                                                *)
(*  - Time is counted in ticks; time.Since(started) is a nondeterministic, *)
(*    non-decreasing reading in 0..MaxElapsed.                             *)
(*  - zstd compression is lossless and is left out: the cache holds the    *)
(*    JSON encoding.                                                       *)
(*  - A bytes.Buffer lying in bufPool holds what its last user left;      *)
(*    nothing reads it before the next Reset, and the model does not tell  *)
(*    such contents apart.                                                 *)
(***************************************************************************)
EXTENDS Integers, Sequences, FiniteSets, TLC

\* ------------------------------------------------------------------ bounds
\* Largest reading of time.Since(started), in ticks.
MaxElapsed == 1

\* Server.CacheTriggerDuration, in ticks.
CacheTriggerDuration == 0

\* mapToLocal: size = 500.
BatchSize == 500

\* mapToLocal: "Anything between 1 and 999", the variable limit of sqlite.
VariableLimit == 999

\* ------------------------------------------------------------- the universe
Reqs == {"r1", "r2"}

\* Local identifiers, in the row order of the identifier table.
LocalIDSeq == <<"L1", "L2", "L3">>
LocalIDs == {LocalIDSeq[i] : i \in 1..Len(LocalIDSeq)}
\* An id the identifier table has no row for.
UnknownID == "LX"
RequestIDs == {"L1", UnknownID}

SubjectDOI == "D1"
OtherDOIs == {"D2", "D3"}
DOIs == {SubjectDOI} \cup OtherDOIs

NoRow == "norow"
NoTook == -1

ISILs == {"DE-14"}

\* Index data. A blob is what the server can observe of a json.RawMessage:
\* hasInst/inst, the member "institution" and its value; took, the number
\* following a literal "took": key of the blob itself (NoTook: no such key).
\* BlobHeld is held by DE-14, BlobOther by DE-15 and has a member "took":7,
\* BlobBare has no institution member.
BlobHeld == [hasInst |-> TRUE, inst |-> <<"DE-14">>, took |-> NoTook]
BlobOther == [hasInst |-> TRUE, inst |-> <<"DE-15">>, took |-> 7]
BlobBare == [hasInst |-> FALSE, inst |-> <<>>, took |-> NoTook]
Blobs == {BlobHeld, BlobOther, BlobBare}
\* Fetch returns ErrBlobNotFound for this entry.
NotFoundBlob == [notfound |-> TRUE]
\* A blob the index returns that is not valid JSON.
BlobBroken == [invalid |-> TRUE]
IsValidJSON(blob) == "invalid" \notin DOMAIN blob

VARIABLES
    identTable,   \* IdentifierDatabase: local id -> DOI, or NoRow
    ociTable,     \* OciDatabase: set of edges <<k, v>>, k cites v
    indexData,    \* IndexData: local id -> blob, or NotFound
    cacheMode,    \* "off" (Cache = nil), "rw", "ro" (Set returns ErrReadOnly)
    cache,        \* Cache: request id -> encoded body, or NoEntry
    snippetPool,  \* Institution values of the Snippets lying in snippetPool
    rq,           \* per request: position and locals of the handler
    lastLive,     \* history: the last response the live pipeline sent, per isil
    call,         \* a function of the package called on its own: arguments, result
    bufPool,      \* the bytes.Buffers lying in bufPool
    buffers       \* the bytes.Buffers made so far: buffer -> contents

vars == <<identTable, ociTable, indexData, cacheMode, cache, snippetPool, rq,
          lastLive, call, bufPool, buffers>>
stores == <<identTable, ociTable, indexData, cacheMode>>

\* ---------------------------------------------------------- bufPool
bufs == <<bufPool, buffers>>
BufIDs == {"b1", "b2"}
NoBuf == [kind |-> "none"]
EmptyBuf == [kind |-> "empty"]
\* Bytes that are no complete encoding: what a writer that returned an
\* error has left, or what is appended to bytes already there.
PartialBuf == [kind |-> "partial"]
\* The contents of a buffer lying in the pool: what its last user left.
\* Nothing reads them before the next Reset, so they are not told apart.
StaleBuf == [kind |-> "stale"]

\* The buffers the handlers hold.
HeldBufs == {rq[r].buf : r \in Reqs} \ {""}

\* bufPool.Get() that leaves the buffer in the pool.
bufPoolTakeKeeps(pool, b) == pool

\* The pool after bufPool.Get() returned b.
bufPoolTake(pool, b) == pool \ {b}

\* bufPool.Get(): a buffer lying in the pool, or the one New makes when the
\* pool is empty.
bufPoolGet ==
    IF bufPool # {} THEN bufPool
    ELSE IF BufIDs \ HeldBufs = {} THEN {}
    ELSE {CHOOSE b \in BufIDs \ HeldBufs : TRUE}

\* buf.Reset()
Reset(b) == EmptyBuf

\* zw writes into a buffer holding `had`: the bytes are appended.
Written(had, body) == IF had = EmptyBuf THEN body ELSE PartialBuf

\* ------------------------------------------------------------------ helpers
Range(s) == {s[i] : i \in 1..Len(s)}

\* All orders in which a Go map (package set) can be iterated.
Perms(S) == {s \in [1..Cardinality(S) -> S] : Range(s) = S}

RECURSIVE SelectRows(_, _)
\* The subsequence of rows whose v is in vs.
SelectRows(rows, vs) ==
    IF rows = <<>> THEN <<>>
    ELSE (IF Head(rows).v \in vs THEN <<Head(rows)>> ELSE <<>>)
         \o SelectRows(Tail(rows), vs)

\* The identifier table as rows, in table order.
IdentRows ==
    LET all == [i \in 1..Len(LocalIDSeq) |->
                    [k |-> LocalIDSeq[i], v |-> identTable[LocalIDSeq[i]]]]
    IN SelectRows(all, DOIs)

\* sliceContains(ss, v)
sliceContains(ss, v) == \E i \in 1..Len(ss) : ss[i] = v

\* ------------------------------------------------------------- Response
NewResponse(id) ==
    [id |-> id, doi |-> "",
     citing |-> <<>>, cited |-> <<>>,
     unmatchedCiting |-> <<>>, unmatchedCited |-> <<>>,
     citingCount |-> 0, citedCount |-> 0,
     unmatchedCitingCount |-> 0, unmatchedCitedCount |-> 0,
     cached |-> FALSE, took |-> 0, institution |-> ""]

\* updateCounts that forgets the two unmatched counts.
updateCountsMatchedOnly(r) ==
    [r EXCEPT !.citingCount = Len(r.citing),
              !.citedCount = Len(r.cited)]

\* (r *Response) updateCounts
updateCounts(r) ==
    [r EXCEPT !.citingCount = Len(r.citing),
              !.citedCount = Len(r.cited),
              !.unmatchedCitingCount = Len(r.unmatchedCiting),
              !.unmatchedCitedCount = Len(r.unmatchedCited)]

\* --------------------------------------------------- JSON encoding
\* The synthetic object of an unmatched DOI: {"doi_str_mv": "<doi>"}.
Synthetic(d) == [lid |-> "", doi |-> d, b |-> [doi_str_mv |-> d]]

\* An element made of the blob fetched for the row (lid, doi).
Hydrated(row, blob) == [lid |-> row.k, doi |-> row.v, b |-> blob]

\* json.Encoder.Encode(Response): the members in field order; a member tagged
\* omitempty is left out when its value is empty, the structs unmatched and
\* extra are always written.
Encode(r) ==
    LET umKeys == (IF Len(r.unmatchedCiting) > 0 THEN {"citing"} ELSE {})
                  \cup (IF Len(r.unmatchedCited) > 0 THEN {"cited"} ELSE {})
        um == [k \in umKeys |->
                  IF k = "citing" THEN r.unmatchedCiting ELSE r.unmatchedCited]
        exKeys == {"unmatched_citing_count", "unmatched_cited_count",
                   "citing_count", "cited_count", "cached", "took"}
                  \cup (IF r.institution # "" THEN {"institution"} ELSE {})
        ex == [k \in exKeys |->
                  CASE k = "unmatched_citing_count" -> r.unmatchedCitingCount
                    [] k = "unmatched_cited_count" -> r.unmatchedCitedCount
                    [] k = "citing_count" -> r.citingCount
                    [] k = "cited_count" -> r.citedCount
                    [] k = "cached" -> r.cached
                    [] k = "took" -> r.took
                    [] k = "institution" -> r.institution]
        keys == {"unmatched", "extra"}
                \cup (IF r.id # "" THEN {"id"} ELSE {})
                \cup (IF r.doi # "" THEN {"doi"} ELSE {})
                \cup (IF Len(r.citing) > 0 THEN {"citing"} ELSE {})
                \cup (IF Len(r.cited) > 0 THEN {"cited"} ELSE {})
    IN [k \in keys |->
           CASE k = "id" -> r.id
             [] k = "doi" -> r.doi
             [] k = "citing" -> r.citing
             [] k = "cited" -> r.cited
             [] k = "unmatched" -> um
             [] k = "extra" -> ex]

\* json.Decoder.Decode into a zero Response: a member that is absent leaves
\* the zero value of its field.
Decode(j) ==
    LET um == j["unmatched"]
        ex == j["extra"]
    IN [id |-> IF "id" \in DOMAIN j THEN j["id"] ELSE "",
        doi |-> IF "doi" \in DOMAIN j THEN j["doi"] ELSE "",
        citing |-> IF "citing" \in DOMAIN j THEN j["citing"] ELSE <<>>,
        cited |-> IF "cited" \in DOMAIN j THEN j["cited"] ELSE <<>>,
        unmatchedCiting |-> IF "citing" \in DOMAIN um THEN um["citing"] ELSE <<>>,
        unmatchedCited |-> IF "cited" \in DOMAIN um THEN um["cited"] ELSE <<>>,
        citingCount |-> ex["citing_count"],
        citedCount |-> ex["cited_count"],
        unmatchedCitingCount |-> ex["unmatched_citing_count"],
        unmatchedCitedCount |-> ex["unmatched_cited_count"],
        cached |-> ex["cached"],
        took |-> ex["took"],
        institution |-> IF "institution" \in DOMAIN ex THEN ex["institution"] ELSE ""]

\* Encode returns an error for a json.RawMessage that is not valid JSON, in
\* whichever array it is.
EncodeFails(r) ==
    \E e \in Range(r.citing \o r.cited \o r.unmatchedCiting \o r.unmatchedCited) :
        ~IsValidJSON(e.b)

\* One raw message after the replacer: a "took":<number> inside it matches
\* the pattern like any other.
ReplaceInElement(e, t) ==
    IF "took" \in DOMAIN e.b /\ e.b.took # NoTook
    THEN [e EXCEPT !.b.took = t]
    ELSE e

ReplaceInArray(s, t) == [i \in 1..Len(s) |-> ReplaceInElement(s[i], t)]

\* transform.NewReader(r, replace.RegexpString(`"took":[0-9.]+`, took)): every
\* match in the stream is replaced, wherever it is.
ReplaceTook(j, t) ==
    [k \in DOMAIN j |->
        CASE k \in {"citing", "cited"} -> ReplaceInArray(j[k], t)
          [] k = "unmatched" ->
                [u \in DOMAIN j[k] |-> ReplaceInArray(j[k][u], t)]
          [] k = "extra" -> [j[k] EXCEPT !["took"] = t]
          [] OTHER -> j[k]]

\* ------------------------------------------------- holdings filter
\* json.Unmarshal(b, v) into a Snippet taken from the pool: the member
\* "institution" overwrites v.Institution, a blob without it leaves what the
\* Snippet held before.
Unmarshal(blob, v) == IF IsValidJSON(blob) /\ blob.hasInst THEN blob.inst ELSE v

\* json.Unmarshal that reports no error.
UnmarshalFailsNever(blob) == FALSE

\* json.Unmarshal(b, v) returns an error: the blob is not valid JSON.
UnmarshalFails(blob) == ~IsValidJSON(blob)

\* snippetPool.Put(v). A Snippet whose Institution is nil is what New returns,
\* so it is not kept apart.
PoolPut(pool, v) == IF v = <<>> THEN pool ELSE pool \cup {v}

RECURSIVE FilterWalk(_, _, _)
\* The loop bodies of applyInstitutionFilter over a sequence of elements:
\* every way the pool can serve the Gets, as [keep, pool], keep[i] telling
\* whether element i stays.
FilterWalk(elems, institution, pool) ==
    IF elems = <<>> THEN {[keep |-> <<>>, pool |-> pool]}
    ELSE UNION {
        LET v == Unmarshal(Head(elems).b, got)
            rest == FilterWalk(Tail(elems), institution,
                               PoolPut(pool \ {got}, v))
        IN {[keep |-> <<sliceContains(v, institution)>> \o w.keep,
             pool |-> w.pool] : w \in rest}
        : got \in pool \cup {<<>>}}

RECURSIVE Pick(_, _, _)
\* The elements of s whose flag equals want, in order.
Pick(s, flags, want) ==
    IF s = <<>> THEN <<>>
    ELSE (IF Head(flags) = want THEN <<Head(s)>> ELSE <<>>)
         \o Pick(Tail(s), Tail(flags), want)

\* (r *Response) applyInstitutionFilter(institution), given one run w of the
\* two loops over r.citing \o r.cited.
Filtered(r, institution, w) ==
    LET n == Len(r.citing)
        kc == SubSeq(w.keep, 1, n)
        kd == SubSeq(w.keep, n + 1, Len(w.keep))
    IN [updateCounts(
          [r EXCEPT !.citing = Pick(r.citing, kc, TRUE),
                    !.cited = Pick(r.cited, kd, TRUE),
                    !.unmatchedCiting = r.unmatchedCiting \o Pick(r.citing, kc, FALSE),
                    !.unmatchedCited = r.unmatchedCited \o Pick(r.cited, kd, FALSE)])
        EXCEPT !.institution = institution]

\* All results of applyInstitutionFilter with the pool as it is:
\* [response, pool].
applyInstitutionFilter(r, institution, pool) ==
    {[response |-> Filtered(r, institution, w), pool |-> w.pool]
        : w \in FilterWalk(r.citing \o r.cited, institution, pool)}

\* The index of the first element of elems whose blob does not unmarshal,
\* 0 when there is none.
FirstBroken(elems) ==
    IF \E i \in 1..Len(elems) : UnmarshalFails(elems[i].b)
    THEN CHOOSE i \in 1..Len(elems) :
            /\ UnmarshalFails(elems[i].b)
            /\ \A j \in 1..(i - 1) : ~UnmarshalFails(elems[j].b)
    ELSE 0

\* applyInstitutionFilter panics ("internal data broken"): some blob of
\* r.citing or r.cited does not unmarshal.
FilterPanics(r) == FirstBroken(r.citing \o r.cited) # 0

\* Some blob of r.citing or r.cited is not valid JSON.
HasBrokenBlob(r) == \E e \in Range(r.citing \o r.cited) : ~IsValidJSON(e.b)

\* The pools a panicking applyInstitutionFilter can leave: the elements
\* before the broken one have been walked, and the Snippet taken for the
\* broken one is not put back.
FilterPanicPools(r, institution, pool) ==
    LET elems == r.citing \o r.cited
        before == SubSeq(elems, 1, FirstBroken(elems) - 1)
    IN UNION {{w.pool \ {got} : got \in w.pool \cup {<<>>}}
                 : w \in FilterWalk(before, institution, pool)}

\* ------------------------------------------------------ the stores
\* edges: SELECT * FROM map WHERE k = doi, and WHERE v = doi.
EdgesCiting(doi) == {e \in ociTable : e[1] = doi}
EdgesCited(doi) == {e \in ociTable : e[2] = doi}

RECURSIVE Batches(_, _, _, _)
Batches(ss, b, e, n) ==
    IF Len(ss) <= e THEN <<SubSeq(ss, b + 1, Len(ss))>>
    ELSE <<SubSeq(ss, b + 1, e)>> \o Batches(ss, e, e + n, n)

\* batchedStrings returning after its first batch.
batchedStringsFirstOnly(ss, n) ==
    <<SubSeq(ss, 1, IF Len(ss) <= n THEN Len(ss) ELSE n)>>

RECURSIVE BatchesStrict(_, _, _, _)
BatchesStrict(ss, b, e, n) ==
    IF Len(ss) < e THEN <<SubSeq(ss, b + 1, Len(ss))>>
    ELSE <<SubSeq(ss, b + 1, e)>> \o BatchesStrict(ss, e, e + n, n)

\* batchedStrings with len(ss) < e as the condition of its last batch.
batchedStringsTrailingEmpty(ss, n) == BatchesStrict(ss, 0, n, n)

\* batchedStrings(ss, n): b, e := 0, n and the loop.
batchedStrings(ss, n) == Batches(ss, 0, n, n)

RECURSIVE SelectBatches(_)
\* The rows of the batches' queries, SELECT * FROM map WHERE v IN (batch),
\* appended batch after batch.
SelectBatches(bs) ==
    IF bs = <<>> THEN <<>>
    ELSE SelectRows(IdentRows, Range(Head(bs))) \o SelectBatches(Tail(bs))

\* The loop of mapToLocal with its local size set to size, when every query
\* succeeds.
mapToLocalSized(dois, size) == SelectBatches(batchedStrings(dois, size))

\* mapToLocal(ctx, dois) when every query succeeds.
mapToLocal(dois) == mapToLocalSized(dois, BatchSize)

\* sqlx.In("... IN (?)", batch) returns an error for an empty slice, and
\* mapToLocal returns it: batchedStrings makes one empty batch of an empty
\* slice.
mapToLocalInFails(dois, size) ==
    \E i \in 1..Len(batchedStrings(dois, size)) :
        batchedStrings(dois, size)[i] = <<>>

\* ------------------------------------------------- steps 5 and 6
\* The switch of step (5) with its cases in the other order.
UnmatchedTargetInboundFirst(k, outbound, inbound) ==
    CASE k \in inbound -> "cited"
      [] k \in outbound -> "citing"
      [] OTHER -> "panic"

\* The switch of step (5) without its second case.
UnmatchedTargetOutboundOnly(k, outbound, inbound) ==
    CASE k \in outbound -> "citing"
      [] OTHER -> "panic"

UnmatchedTarget(k, outbound, inbound) ==
    CASE k \in outbound -> "citing"
      [] k \in inbound -> "cited"
      [] OTHER -> "panic"

RECURSIVE ClassifyUnmatched(_, _, _)
\* The loop over unmatchedSet in the order given: [citing, cited, panic].
ClassifyUnmatched(order, outbound, inbound) ==
    IF order = <<>> THEN [citing |-> <<>>, cited |-> <<>>, panic |-> FALSE]
    ELSE LET t == UnmatchedTarget(Head(order), outbound, inbound)
             rest == ClassifyUnmatched(Tail(order), outbound, inbound)
             b == Synthetic(Head(order))
         IN CASE t = "citing" -> [rest EXCEPT !.citing = <<b>> \o @]
              [] t = "cited" -> [rest EXCEPT !.cited = <<b>> \o @]
              [] OTHER -> [rest EXCEPT !.panic = TRUE]

\* The switch of step (6) with its cases in the other order.
HydratedTargetInboundFirst(v, outbound, inbound) ==
    CASE v \in inbound -> "cited"
      [] v \in outbound -> "citing"
      [] OTHER -> "none"

HydratedTarget(v, outbound, inbound) ==
    CASE v \in outbound -> "citing"
      [] v \in inbound -> "cited"
      [] OTHER -> "none"

\* Fetch(key) returned ErrBlobNotFound.
IsBlobNotFound(blob) == "notfound" \in DOMAIN blob

RECURSIVE HydrateRowsStopsAtMissing(_, _, _)
\* The loop of step (6) leaving at the first ErrBlobNotFound (break for
\* continue).
HydrateRowsStopsAtMissing(ids, outbound, inbound) ==
    IF ids = <<>> THEN [citing |-> <<>>, cited |-> <<>>]
    ELSE LET row == Head(ids)
             blob == indexData[row.k]
             rest == HydrateRowsStopsAtMissing(Tail(ids), outbound, inbound)
             t == HydratedTarget(row.v, outbound, inbound)
         IN CASE IsBlobNotFound(blob) -> [citing |-> <<>>, cited |-> <<>>]
              [] t = "citing" -> [rest EXCEPT !.citing = <<Hydrated(row, blob)>> \o @]
              [] t = "cited" -> [rest EXCEPT !.cited = <<Hydrated(row, blob)>> \o @]
              [] OTHER -> rest

RECURSIVE HydrateRows(_, _, _)
\* The loop over ids when no Fetch fails other than by ErrBlobNotFound:
\* [citing, cited].
HydrateRows(ids, outbound, inbound) ==
    IF ids = <<>> THEN [citing |-> <<>>, cited |-> <<>>]
    ELSE LET row == Head(ids)
             blob == indexData[row.k]
             rest == HydrateRows(Tail(ids), outbound, inbound)
             t == HydratedTarget(row.v, outbound, inbound)
         IN CASE IsBlobNotFound(blob) -> rest
              [] t = "citing" -> [rest EXCEPT !.citing = <<Hydrated(row, blob)>> \o @]
              [] t = "cited" -> [rest EXCEPT !.cited = <<Hydrated(row, blob)>> \o @]
              [] OTHER -> rest

\* ------------------------------------------------------ the handler
NoBody == [kind |-> "none"]
\* httpErrLog(w, status, err): {"status": N, "err": ...}
ErrorBody(status) == [kind |-> "error", status |-> status]
JsonBody(j) == [kind |-> "json", json |-> j]
NoEntry == [kind |-> "none"]

Idle ==
    [pc |-> "idle", id |-> "", isil |-> "", doi |-> "",
     outbound |-> {}, inbound |-> {}, ids |-> <<>>,
     response |-> NewResponse(""),
     status |-> 0, body |-> NoBody, path |-> "", cacheSet |-> FALSE,
     at |-> "", cause |-> "", calls |-> {}, elapsed |-> NoTook,
     buf |-> "", setArg |-> NoEntry]

\* Nothing is called on its own.
NoCall == [fn |-> "none"]

\* The handler has called c (a query of a store, a function of the server).
Called(q, c) == [q EXCEPT !.calls = @ \cup {c}]

\* The handler returns at step `at`, having written status and body
\* (status 0: nothing was written).
Return(q, at, status, body) ==
    [q EXCEPT !.pc = "done", !.at = at, !.status = status, !.body = body]

\* Errors of the database calls.
ErrNoRows == [is |-> "sql.ErrNoRows"]
ErrCanceled == [is |-> "context.Canceled"]
ErrOther == [is |-> "other"]
\* Errors of the cache: the sentinel of a read-only cache, and the wrapped
\* error of zstd.NewWriter, of Encode or of zw.Close.
ErrReadOnly == [is |-> "cache.ErrReadOnly"]
ErrCompress == [is |-> "cache compress"]
\* fmt.Errorf("...: %v", err): a new error carrying the text of err.
Errorf(err) == [is |-> "fmt.Errorf", text |-> err.is]

\* The switch of step (1) without the case sql.ErrNoRows.
LookupErrorStatusNoRowsIs500(err) ==
    CASE err = ErrCanceled -> 0
      [] OTHER -> 500

\* The switch of step (1) on the error of the lookup.
LookupErrorStatus(err) ==
    CASE err = ErrNoRows -> 404
      [] err = ErrCanceled -> 0
      [] OTHER -> 500

\* The switch of steps (2) and (4) logging in both cases.
ErrorStatusLogOnly(err) == 0

\* The switches of steps (2) and (4): case err == context.Canceled, default.
ErrorStatus(err) == IF err = ErrCanceled THEN 0 ELSE 500

\* The handler returns on an error whose root cause is `cause`: silently for
\* status 0, through httpErrLogf otherwise.
Fail(q, at, cause, status) ==
    [Return(q, at, status, IF status = 0 THEN NoBody ELSE ErrorBody(status))
        EXCEPT !.cause = cause.is]

\* A request arrives: the var block of handleLocalIdentifier.
Receive(r) ==
    /\ rq[r].pc = "idle"
    /\ \E id \in RequestIDs, isil \in {""} \cup ISILs :
          rq' = [rq EXCEPT ![r] = [Idle EXCEPT !.pc = "probe", !.id = id,
                                               !.isil = isil,
                                               !.response = NewResponse(id)]]
    /\ UNCHANGED <<stores, bufs, call, cache, snippetPool, lastLive>>

\* (0) no cache, or Cache.Get returned an error (no entry, or any other).
CacheMiss(r) ==
    /\ rq[r].pc = "probe"
    /\ \/ cacheMode = "off"
       \/ cacheMode # "off" /\ cache[rq[r].id] = NoEntry
       \/ cacheMode # "off" /\ cache[rq[r].id] # NoEntry
    /\ rq' = [rq EXCEPT ![r].pc = "s1"]
    /\ UNCHANGED <<stores, bufs, call, cache, snippetPool, lastLive>>

\* The stream a cache hit reads: the entry with "took" replaced.
HitStream(entry, took) == ReplaceTook(entry.json, took)

\* The cache-hit path falling through to step (1) after the copy.
CacheHitCopyFallsThrough(r) ==
    /\ rq[r].pc = "probe"
    /\ cacheMode # "off"
    /\ cache[rq[r].id] # NoEntry
    /\ rq[r].isil = ""
    /\ \E took \in 0..MaxElapsed :
          rq' = [rq EXCEPT ![r] =
                    [Return([@ EXCEPT !.path = "hit"], "0", 200,
                            JsonBody(HitStream(cache[rq[r].id], took)))
                        EXCEPT !.pc = "s1"]]
    /\ UNCHANGED <<stores, bufs, call, cache, snippetPool, lastLive>>

\* (0) cache hit without institution: io.Copy(w, replacer).
CacheHitCopy(r) ==
    /\ rq[r].pc = "probe"
    /\ cacheMode # "off"
    /\ cache[rq[r].id] # NoEntry
    /\ rq[r].isil = ""
    /\ \E took \in 0..MaxElapsed :
          rq' = [rq EXCEPT ![r] =
                    Return([@ EXCEPT !.path = "hit"], "0", 200,
                           JsonBody(HitStream(cache[rq[r].id], took)))]
    /\ UNCHANGED <<stores, bufs, call, cache, snippetPool, lastLive>>

\* (0) cache hit with institution: decode, filter, encode.
CacheHitFilter(r) ==
    /\ rq[r].pc = "probe"
    /\ cacheMode # "off"
    /\ cache[rq[r].id] # NoEntry
    /\ rq[r].isil # ""
    /\ \E took \in 0..MaxElapsed :
          LET resp == Decode(HitStream(cache[rq[r].id], took))
          IN \E f \in applyInstitutionFilter(resp, rq[r].isil, snippetPool) :
                /\ rq' = [rq EXCEPT ![r] =
                            Return([@ EXCEPT !.path = "hit"], "0", 200,
                                   JsonBody(Encode(f.response)))]
                /\ snippetPool' = f.pool
    /\ UNCHANGED <<stores, bufs, call, cache, lastLive>>

\* (0) cache hit ending in 500: zstd.NewReader, Decode, Encode or io.Copy
\* returns an error.
CacheHitFails(r) ==
    /\ rq[r].pc = "probe"
    /\ cacheMode # "off"
    /\ cache[rq[r].id] # NoEntry
    /\ rq' = [rq EXCEPT ![r] = Fail([@ EXCEPT !.path = "hit"], "0", ErrOther, 500)]
    /\ UNCHANGED <<stores, bufs, call, cache, snippetPool, lastLive>>

\* SELECT v FROM map WHERE k = id: the row's v, or NoRow (sql.ErrNoRows).
LookupDOI(id) == IF id \in DOMAIN identTable THEN identTable[id] ELSE NoRow

\* (1) resolve the id to its DOI.
Step1(r) ==
    /\ rq[r].pc = "s1"
    /\ \/ /\ LookupDOI(rq[r].id) # NoRow
          /\ rq' = [rq EXCEPT ![r].pc = "s2",
                              ![r].doi = LookupDOI(rq[r].id),
                              ![r].response.doi = LookupDOI(rq[r].id),
                              ![r].calls = @ \cup {"GetContext"}]
       \/ /\ LookupDOI(rq[r].id) = NoRow
          /\ rq' = [rq EXCEPT ![r] =
                      Fail(Called(@, "GetContext"), "1", ErrNoRows,
                           LookupErrorStatus(ErrNoRows))]
       \/ \E err \in {ErrCanceled, ErrOther} :
             rq' = [rq EXCEPT ![r] =
                      Fail(Called(@, "GetContext"), "1", err, LookupErrorStatus(err))]
    /\ UNCHANGED <<stores, bufs, call, cache, snippetPool, lastLive>>

\* ds.IsEmpty() that never sees an empty set.
IsEmptyNever(ds) == FALSE

\* (s Set) IsEmpty, as step (3) uses it on the union.
IsEmpty(ds) == ds = {}

\* (2) edges, and (3) the sets outbound, inbound and their union.
Step2(r) ==
    /\ rq[r].pc = "s2"
    /\ LET outbound == {e[2] : e \in EdgesCiting(rq[r].doi)}
           inbound == {e[1] : e \in EdgesCited(rq[r].doi)}
       IN \/ /\ ~IsEmpty(outbound \cup inbound)
             /\ rq' = [rq EXCEPT ![r].pc = "s4", ![r].outbound = outbound,
                                 ![r].inbound = inbound,
                                 ![r].calls = @ \cup {"edges"}]
          \/ \* ds.IsEmpty(): w.WriteHeader(http.StatusNotFound)
             /\ IsEmpty(outbound \cup inbound)
             /\ rq' = [rq EXCEPT ![r] = Return(Called(@, "edges"), "3", 404, NoBody)]
          \/ \* edges returns the error of either query as it is
             \E err \in {ErrCanceled, ErrOther} :
                rq' = [rq EXCEPT ![r] =
                          Fail(Called(@, "edges"), "2", err, ErrorStatus(err))]
    /\ UNCHANGED <<stores, bufs, call, cache, snippetPool, lastLive>>

\* mapToLocal when the query of a batch fails with err:
\* return nil, fmt.Errorf("select (%d): %v", len(dois), err).
mapToLocalError(err) == Errorf(err)

\* (4) mapToLocal(ctx, ds.Slice()).
Step4(r) ==
    /\ rq[r].pc = "s4"
    /\ \E dois \in Perms(rq[r].outbound \cup rq[r].inbound) :
          \/ rq' = [rq EXCEPT ![r].pc = "s5", ![r].ids = mapToLocal(dois),
                              ![r].calls = @ \cup {"mapToLocal"}]
          \/ \* the query of some batch fails
             \E err \in {ErrCanceled, ErrOther} :
                rq' = [rq EXCEPT ![r] =
                          Fail(Called(@, "mapToLocal"), "4", err,
                               ErrorStatus(mapToLocalError(err)))]
    /\ UNCHANGED <<stores, bufs, call, cache, snippetPool, lastLive>>

\* Step (5) without the difference: every DOI counts as unmatched.
UnmatchedSetAll(ds, ids) == ds

\* unmatchedSet = ds.Difference(set.FromSlice(matched))
UnmatchedSet(ds, ids) == ds \ {ids[i].v : i \in 1..Len(ids)}

\* (5) unmatched bookkeeping.
Step5(r) ==
    /\ rq[r].pc = "s5"
    /\ LET unmatchedSet == UnmatchedSet(rq[r].outbound \cup rq[r].inbound, rq[r].ids)
       IN \E order \in Perms(unmatchedSet) :
             LET u == ClassifyUnmatched(order, rq[r].outbound, rq[r].inbound)
             IN IF u.panic
                THEN rq' = [rq EXCEPT ![r] = Return([@ EXCEPT !.path = "panic"], "5", 0, NoBody)]
                ELSE rq' = [rq EXCEPT ![r].pc = "s6",
                                      ![r].response.unmatchedCiting = u.citing,
                                      ![r].response.unmatchedCited = u.cited]
    /\ UNCHANGED <<stores, bufs, call, cache, snippetPool, lastLive>>

\* Step (6) storing what it has assembled before it fetches.
Step6CachesEarly(r) ==
    /\ rq[r].pc = "s6"
    /\ cacheMode = "rw"
    /\ cache' = [cache EXCEPT ![rq[r].id] = JsonBody(Encode(rq[r].response))]
    /\ rq' = [rq EXCEPT ![r] = Fail(@, "6", ErrOther, 500)]
    /\ UNCHANGED <<stores, bufs, call, snippetPool, lastLive>>

\* (6) blob hydration.
Step6(r) ==
    /\ rq[r].pc = "s6"
    /\ \/ LET h == HydrateRows(rq[r].ids, rq[r].outbound, rq[r].inbound)
          IN rq' = [rq EXCEPT ![r].pc = "s7",
                              ![r].response.citing = h.citing,
                              ![r].response.cited = h.cited,
                              ![r].calls = IF Len(rq[r].ids) > 0
                                           THEN @ \cup {"Fetch"} ELSE @]
       \/ \* some Fetch fails with an error that is not ErrBlobNotFound
          /\ Len(rq[r].ids) > 0
          /\ rq' = [rq EXCEPT ![r] = Fail(Called(@, "Fetch"), "6", ErrOther, 500)]
    /\ UNCHANGED <<stores, bufs, call, cache, snippetPool, lastLive>>

\* The body encoded before extra.cached is stamped.
CacheBodyUnstamped(response) ==
    JsonBody(Encode([response EXCEPT !.cached = FALSE]))

\* The body encoded after the institution filter has run.
CacheBodyFiltered(response) ==
    JsonBody(Encode(
        (CHOOSE f \in applyInstitutionFilter(response, "DE-14", {}) : TRUE).response))

\* What is handed to Cache.Set: the encoding of the response as it is at the
\* call of wrap().
CacheBody(response) == JsonBody(Encode(response))

\* ------------------------------------------------------- step (7)
\* The condition of step (7) with >= in place of >.
TriggeredAtThreshold(elapsed) ==
    cacheMode # "off" /\ elapsed >= CacheTriggerDuration

\* s.Cache != nil && time.Since(started) > s.CacheTriggerDuration
Triggered(elapsed) ==
    cacheMode # "off" /\ elapsed > CacheTriggerDuration

\* wrap() returning every error of Cache.Set.
SetErrorIsFatalAlways(err) == TRUE

\* wrap(): cache.ErrReadOnly makes it return nil, any other error of
\* Cache.Set is returned.
SetErrorIsFatal(err) == err # ErrReadOnly

\* The errors Cache.Set can return: a read-only cache returns its sentinel.
CacheSetErrors == IF cacheMode = "ro" THEN {ErrReadOnly} ELSE {ErrOther}

\* Finalize, and (7) cache expensive results, as one step. took is
\* time.Since(started) of line 502, elapsed the one of line 504.
Step7(r) ==
    /\ rq[r].pc = "s7"
    /\ \E took \in 0..MaxElapsed :
       \E elapsed \in took..MaxElapsed :
          LET resp == [updateCounts(rq[r].response) EXCEPT !.took = took]
              stamped == [resp EXCEPT !.cached = TRUE]
          IN \/ /\ ~Triggered(elapsed)
                /\ rq' = [rq EXCEPT ![r].pc = "s8", ![r].response = resp,
                                    ![r].elapsed = elapsed]
                /\ UNCHANGED <<cache, bufs>>
             \/ /\ Triggered(elapsed)
                /\ \E b \in bufPoolGet :
                   LET bytes == Written(Reset(b), CacheBody(stamped))
                   IN \/ \* Cache.Set succeeds
                         /\ cacheMode = "rw"
                         /\ ~EncodeFails(stamped)
                         /\ rq' = [rq EXCEPT ![r].pc = "s8",
                                             ![r].response = stamped,
                                             ![r].cacheSet = TRUE,
                                             ![r].setArg = bytes,
                                             ![r].elapsed = elapsed]
                         /\ cache' = [cache EXCEPT ![rq[r].id] = bytes]
                         /\ buffers' = [buffers EXCEPT ![b] = StaleBuf]
                         /\ bufPool' = bufPool \cup {b}
                      \/ \* Cache.Set returns an error
                         /\ ~EncodeFails(stamped)
                         /\ \E err \in CacheSetErrors :
                               rq' = [rq EXCEPT ![r] =
                                   LET q == [@ EXCEPT !.response = stamped,
                                                      !.cacheSet = TRUE,
                                                      !.setArg = bytes,
                                                      !.elapsed = elapsed]
                                   IN IF SetErrorIsFatal(err)
                                      THEN Fail(q, "7", err, 500)
                                      ELSE [q EXCEPT !.pc = "s8"]]
                         /\ cache' = cache
                         /\ buffers' = [buffers EXCEPT ![b] = StaleBuf]
                         /\ bufPool' = bufPool \cup {b}
                      \/ \* wrap() returns before Cache.Set: zstd.NewWriter
                         \* or zw.Close returns an error, or Encode does
                         \* (always, on a blob that is not valid JSON)
                         /\ rq' = [rq EXCEPT ![r] =
                                     Fail([@ EXCEPT !.response = stamped,
                                                    !.elapsed = elapsed],
                                          "7", ErrCompress, 500)]
                         /\ cache' = cache
                         /\ buffers' = [buffers EXCEPT ![b] = StaleBuf]
                         /\ bufPool' = bufPool \cup {b}
    /\ UNCHANGED <<stores, call, snippetPool, lastLive>>

\* (8) optional institution filter, (9) send response.
Emit(r) ==
    /\ rq[r].pc = "s8"
    /\ \/ /\ rq[r].isil = ""
          /\ ~EncodeFails(rq[r].response)
          /\ rq' = [rq EXCEPT ![r] =
                      Return([@ EXCEPT !.path = "live"], "9", 200,
                             JsonBody(Encode(rq[r].response)))]
          /\ snippetPool' = snippetPool
       \/ /\ rq[r].isil # ""
          /\ ~FilterPanics(rq[r].response)
          /\ \E f \in applyInstitutionFilter(rq[r].response, rq[r].isil, snippetPool) :
                /\ ~EncodeFails(f.response)
                /\ rq' = [rq EXCEPT ![r] =
                            Return([@ EXCEPT !.path = "live", !.response = f.response],
                                   "9", 200, JsonBody(Encode(f.response)))]
                /\ snippetPool' = f.pool
    /\ UNCHANGED <<stores, bufs, call, cache>>

Step89(r) == Emit(r) /\ UNCHANGED lastLive

\* Steps (8) and (9) ending without a Response: the filter panics, or
\* Encode returns an error and httpErrLogf answers 500.
EmitFails(r) ==
    /\ rq[r].pc = "s8"
    /\ \/ /\ rq[r].isil = ""
          /\ EncodeFails(rq[r].response)
          /\ rq' = [rq EXCEPT ![r] =
                      Fail([@ EXCEPT !.path = "live"], "9", ErrOther, 500)]
          /\ snippetPool' = snippetPool
       \/ /\ rq[r].isil # ""
          /\ FilterPanics(rq[r].response)
          /\ \E pool \in FilterPanicPools(rq[r].response, rq[r].isil, snippetPool) :
                /\ rq' = [rq EXCEPT ![r] =
                            [Return([@ EXCEPT !.path = "live"], "8", 0, NoBody)
                                EXCEPT !.cause = "internal data broken"]]
                /\ snippetPool' = pool
       \/ /\ rq[r].isil # ""
          /\ ~FilterPanics(rq[r].response)
          /\ \E f \in applyInstitutionFilter(rq[r].response, rq[r].isil, snippetPool) :
                /\ EncodeFails(f.response)
                /\ rq' = [rq EXCEPT ![r] =
                            Fail([@ EXCEPT !.path = "live", !.response = f.response],
                                 "9", ErrOther, 500)]
                /\ snippetPool' = f.pool
    /\ UNCHANGED <<stores, bufs, call, cache, lastLive>>

\* The handler has returned; its locals are gone.
Finish(r) ==
    /\ rq[r].pc = "done"
    /\ rq' = [rq EXCEPT ![r] = Idle]
    /\ UNCHANGED <<stores, bufs, call, cache, snippetPool, lastLive>>

\* DELETE /cache: handleCachePurge.
CachePurge ==
    /\ cacheMode # "off"
    /\ \E id \in RequestIDs : cache[id] # NoEntry
    /\ cache' = [id \in RequestIDs |-> NoEntry]
    /\ UNCHANGED <<stores, bufs, call, snippetPool, rq, lastLive>>

\* ------------------------------------------------------ specification
IdentTables ==
    {t \in [LocalIDs -> DOIs \cup {NoRow}] :
        /\ t["L1"] = SubjectDOI
        /\ t["L2"] \in {"D2", NoRow}
        /\ t["L3"] \in OtherDOIs \cup {NoRow}}

\* The edges of the subject DOI, and one edge that does not touch it.
OciTables ==
    {{<<SubjectDOI, d>> : d \in o} \cup {<<d, SubjectDOI>> : d \in i}
        \cup {<<"D2", "D3">>} : o \in SUBSET OtherDOIs, i \in SUBSET OtherDOIs}

\* The subject's own blob is never fetched; the blob with a "took" member
\* of its own is L3's, and so is the blob that is not valid JSON.
IndexDatas ==
    {x \in [LocalIDs -> Blobs \cup {NotFoundBlob, BlobBroken}] :
        x["L1"] = NotFoundBlob /\ x["L2"] \notin {BlobOther, BlobBroken}}

Init ==
    /\ identTable \in IdentTables
    /\ ociTable \in OciTables
    /\ indexData \in IndexDatas
    /\ cacheMode \in {"off", "rw", "ro"}
    /\ cache = [id \in RequestIDs |-> NoEntry]
    /\ snippetPool = {}
    /\ rq = [r \in Reqs |-> Idle]
    /\ lastLive = [i \in {""} \cup ISILs |-> NoEntry]
    /\ call = NoCall
    /\ bufPool = {}
    /\ buffers = [b \in BufIDs |-> NoBuf]

\* One request at a time.
Next ==
    \/ Receive("r1")
    \/ CacheMiss("r1")
    \/ CacheHitCopy("r1")
    \/ CacheHitFilter("r1")
    \/ CacheHitFails("r1")
    \/ Step1("r1")
    \/ Step2("r1")
    \/ Step4("r1")
    \/ Step5("r1")
    \/ Step6("r1")
    \/ Step7("r1")
    \/ Step89("r1")
    \/ EmitFails("r1")
    \/ Finish("r1")
    \/ CachePurge

Spec == Init /\ [][Next]_vars

\* --------------------------------------- specification with history
SeqToBag(s) == [e \in Range(s) |-> Cardinality({i \in 1..Len(s) : s[i] = e})]

\* A Response without extra.took and extra.cached, its arrays as multisets.
Norm(d) ==
    [id |-> d.id, doi |-> d.doi,
     citing |-> SeqToBag(d.citing), cited |-> SeqToBag(d.cited),
     unmatchedCiting |-> SeqToBag(d.unmatchedCiting),
     unmatchedCited |-> SeqToBag(d.unmatchedCited),
     citingCount |-> d.citingCount, citedCount |-> d.citedCount,
     unmatchedCitingCount |-> d.unmatchedCitingCount,
     unmatchedCitedCount |-> d.unmatchedCitedCount,
     institution |-> d.institution]

\* Steps (8) and (9), remembering the response sent for this value of i.
Step89Rec(r) ==
    /\ Emit(r)
    /\ lastLive' = [lastLive EXCEPT ![rq[r].isil] =
                       [kind |-> "live", norm |-> Norm(Decode(rq'[r].body.json))]]

\* A server with a writable cache.
InitEq == Init /\ cacheMode = "rw"

NextEq ==
    \/ Receive("r1")
    \/ CacheMiss("r1")
    \/ CacheHitCopy("r1")
    \/ CacheHitFilter("r1")
    \/ CacheHitFails("r1")
    \/ Step1("r1")
    \/ Step2("r1")
    \/ Step4("r1")
    \/ Step5("r1")
    \/ Step6("r1")
    \/ Step7("r1")
    \/ Step89Rec("r1")
    \/ EmitFails("r1")
    \/ Finish("r1")
    \/ CachePurge

SpecEq == InitEq /\ [][NextEq]_vars

\* ------------------------------------------------------------ properties
\* The response a finished request wrote, decoded.
Served(r) == Decode(rq[r].body.json)

\* The request ran the live pipeline to its end.
LiveOK(r) == rq[r].pc = "done" /\ rq[r].path = "live" /\ rq[r].status = 200

\* The edge sets of a DOI, read off the citation table.
OutboundOf(doi) == {e[2] : e \in {x \in ociTable : x[1] = doi}}
InboundOf(doi) == {e[1] : e \in {x \in ociTable : x[2] = doi}}

\* The local ids of the DOIs in S whose blob exists, and the DOIs of S that
\* no local id maps to.
LidsFound(S) ==
    {l \in LocalIDs : identTable[l] \in S /\ "notfound" \notin DOMAIN indexData[l]}
DOIsWithoutRow(S) == {d \in S : \A l \in LocalIDs : identTable[l] # d}

ElementOf(l) == [lid |-> l, doi |-> identTable[l], b |-> indexData[l]]
DoisOf(s) == {s[i].doi : i \in 1..Len(s)}

\* C1, as stated: in every successful live unfiltered response,
\* citing_count + unmatched_citing_count is the number of distinct outbound
\* DOIs and cited_count + unmatched_cited_count the number of distinct
\* inbound DOIs.
C1_CountsAreDistinctDOIs ==
    \A r \in Reqs :
        LiveOK(r) /\ rq[r].isil = "" =>
            LET d == Served(r)
            IN /\ d.citingCount + d.unmatchedCitingCount
                    = Cardinality(OutboundOf(d.doi))
               /\ d.citedCount + d.unmatchedCitedCount
                    = Cardinality(InboundOf(d.doi))

\* C1, amended: citing_count + unmatched_citing_count is the number of
\* outbound DOIs without a row in the identifier table plus the number of
\* rows (local id, DOI) with an outbound DOI whose blob exists; the cited sum
\* is the same count over the DOIs that are inbound and not outbound.
C1_CountsFollowRows ==
    \A r \in Reqs :
        LiveOK(r) /\ rq[r].isil = "" =>
            LET d == Served(r)
                out == OutboundOf(d.doi)
                inOnly == InboundOf(d.doi) \ out
            IN /\ d.citingCount + d.unmatchedCitingCount
                    = Cardinality(LidsFound(out)) + Cardinality(DOIsWithoutRow(out))
               /\ d.citedCount + d.unmatchedCitedCount
                    = Cardinality(LidsFound(inOnly)) + Cardinality(DOIsWithoutRow(inOnly))

\* A response whose citing sum exceeds the outbound DOIs (one DOI, two local
\* ids) and whose cited sum falls short of the inbound DOIs.
C1_Witness ==
    \E r \in Reqs :
        /\ LiveOK(r) /\ rq[r].isil = ""
        /\ Served(r).citingCount + Served(r).unmatchedCitingCount
              > Cardinality(OutboundOf(Served(r).doi))
        /\ Served(r).citedCount + Served(r).unmatchedCitedCount
              < Cardinality(InboundOf(Served(r).doi))

\* C2: a DOI that is outbound and inbound is handled as outbound only: its
\* synthetic object goes to unmatched.citing, every blob hydrated for it to
\* citing, and nothing of it is ever in cited or unmatched.cited.
C2_TieBreak ==
    \A r \in Reqs :
        rq[r].path \in {"", "live"} =>
            LET resp == rq[r].response
                both == OutboundOf(rq[r].doi) \cap InboundOf(rq[r].doi)
                past5 == \/ rq[r].pc \in {"s6", "s7", "s8"}
                         \/ rq[r].pc = "done" /\ rq[r].at \in {"6", "7", "9"}
                past6 == \/ rq[r].pc \in {"s7", "s8"}
                         \/ rq[r].pc = "done" /\ rq[r].at \in {"7", "9"}
            IN \A d \in both :
                  /\ d \notin DoisOf(resp.cited) \cup DoisOf(resp.unmatchedCited)
                  /\ past5 /\ d \in DOIsWithoutRow(both)
                        => Synthetic(d) \in Range(resp.unmatchedCiting)
                  /\ past6
                        => \A l \in LidsFound({d}) :
                              ElementOf(l) \in Range(resp.citing)
                                               \cup Range(resp.unmatchedCiting)
                  /\ past6 /\ rq[r].pc # "done"
                        => \A l \in LidsFound({d}) : ElementOf(l) \in Range(resp.citing)

\* After step (6): one DOI of both edge sets is unmatched, another hydrated.
C2_Witness ==
    \E r \in Reqs :
        /\ rq[r].pc = "s7"
        /\ \E d \in OutboundOf(rq[r].doi) \cap InboundOf(rq[r].doi) :
              Synthetic(d) \in Range(rq[r].response.unmatchedCiting)
        /\ \E d \in OutboundOf(rq[r].doi) \cap InboundOf(rq[r].doi) :
              d \in DoisOf(rq[r].response.citing)

\* C3: in a successful live unfiltered response the DOIs behind the unmatched
\* objects are the DOIs of the universe without a row in the identifier table,
\* and none of them is the DOI of a hydrated blob, in either direction.
C3_Partition ==
    \A r \in Reqs :
        LiveOK(r) /\ rq[r].isil = "" =>
            LET d == Served(r)
                universe == OutboundOf(d.doi) \cup InboundOf(d.doi)
                unmatched == DoisOf(d.unmatchedCiting) \cup DoisOf(d.unmatchedCited)
            IN /\ DoisOf(d.citing) \cap DoisOf(d.unmatchedCiting) = {}
               /\ DoisOf(d.cited) \cap DoisOf(d.unmatchedCited) = {}
               /\ unmatched = DOIsWithoutRow(universe)
               /\ unmatched \cap (DoisOf(d.citing) \cup DoisOf(d.cited)) = {}

C3_Witness ==
    \E r \in Reqs :
        /\ LiveOK(r) /\ rq[r].isil = ""
        /\ Served(r).citing # <<>> /\ Served(r).unmatchedCiting # <<>>

\* The responses the handler encodes itself.
Encoded(r) ==
    /\ rq[r].pc = "done" /\ rq[r].status = 200
    /\ rq[r].path = "live" \/ (rq[r].path = "hit" /\ rq[r].isil # "")

\* C4: in every Response the handler encodes (live with or without filter,
\* cache hit with filter) each of the four counts is the length of its array.
C4_CountsAreLengths ==
    \A r \in Reqs :
        Encoded(r) =>
            LET d == Served(r)
            IN /\ d.citingCount = Len(d.citing)
               /\ d.citedCount = Len(d.cited)
               /\ d.unmatchedCitingCount = Len(d.unmatchedCiting)
               /\ d.unmatchedCitedCount = Len(d.unmatchedCited)

\* A cache hit whose filter moved a blob: the counts served are not the
\* counts stored.
C4_Witness ==
    \E r \in Reqs :
        /\ Encoded(r) /\ rq[r].path = "hit"
        /\ cache[rq[r].id] # NoEntry
        /\ Served(r).unmatchedCitingCount
              > Decode(cache[rq[r].id].json).unmatchedCitingCount
        /\ Served(r).citedCount < Decode(cache[rq[r].id].json).citedCount

\* The unfiltered Response of id, as the stores determine it, holds in d
\* (arrays up to order).
IsUnfiltered(id, d) ==
    LET out == OutboundOf(LookupDOI(id))
        inOnly == InboundOf(LookupDOI(id)) \ out
    IN /\ d.id = id /\ d.doi = LookupDOI(id)
       /\ d.institution = ""
       /\ Range(d.citing) = {ElementOf(l) : l \in LidsFound(out)}
       /\ Len(d.citing) = Cardinality(LidsFound(out))
       /\ Range(d.cited) = {ElementOf(l) : l \in LidsFound(inOnly)}
       /\ Len(d.cited) = Cardinality(LidsFound(inOnly))
       /\ Range(d.unmatchedCiting) = {Synthetic(x) : x \in DOIsWithoutRow(out)}
       /\ Len(d.unmatchedCiting) = Cardinality(DOIsWithoutRow(out))
       /\ Range(d.unmatchedCited) = {Synthetic(x) : x \in DOIsWithoutRow(inOnly)}
       /\ Len(d.unmatchedCited) = Cardinality(DOIsWithoutRow(inOnly))

\* C5: whatever requests were made and with whatever i, every cache entry is
\* the encoding of the unfiltered Response of its id: no institution, no blob
\* moved to the unmatched arrays.
C5_CacheUnfiltered ==
    \A id \in RequestIDs :
        cache[id] # NoEntry =>
            /\ "institution" \notin DOMAIN cache[id].json["extra"]
            /\ IsUnfiltered(id, Decode(cache[id].json))

\* A filtered response was served, live or from the cache, with blobs moved,
\* and the entry is there.
C5_Witness ==
    \E r \in Reqs :
        /\ rq[r].pc = "done" /\ rq[r].status = 200 /\ rq[r].isil # ""
        /\ cache[rq[r].id] # NoEntry
        /\ Len(Served(r).unmatchedCiting)
              > Len(Decode(cache[rq[r].id].json).unmatchedCiting)

\* C6: every body handed to Cache.Set, stored or not, says cached = true, and
\* so does every response served from a cache hit.
C6_CachedStamp ==
    /\ \A id \in RequestIDs :
          cache[id] # NoEntry => cache[id].json["extra"]["cached"] = TRUE
    /\ \A r \in Reqs :
          /\ rq[r].cacheSet => rq[r].response.cached = TRUE
          /\ rq[r].pc = "done" /\ rq[r].path = "hit" /\ rq[r].status = 200
                => Served(r).cached = TRUE

C6_Witness ==
    \E r \in Reqs :
        /\ rq[r].pc = "done" /\ rq[r].path = "hit" /\ rq[r].status = 200
        /\ rq[r].isil # ""
        /\ Served(r).cached = TRUE

\* C7: with the stores unchanged, a response served from a cache hit for
\* (id, i) is, but for extra.took and extra.cached, the response the live
\* pipeline sent for (id, i): same id, doi, counts, institution, and the same
\* arrays as multisets.
C7_CacheLiveEquivalence ==
    \A r \in Reqs :
        /\ rq[r].pc = "done" /\ rq[r].path = "hit" /\ rq[r].status = 200
        /\ lastLive[rq[r].isil].kind = "live"
        => Norm(Served(r)) = lastLive[rq[r].isil].norm

\* C8: on a cache hit without i the body sent differs from the cached body in
\* the value of extra.took only.
C8_OnlyTookRewritten ==
    \A r \in Reqs :
        /\ rq[r].pc = "done" /\ rq[r].path = "hit" /\ rq[r].status = 200
        /\ rq[r].isil = ""
        /\ cache[rq[r].id] # NoEntry
        => [rq[r].body.json EXCEPT !["extra"]["took"] =
                cache[rq[r].id].json["extra"]["took"]] = cache[rq[r].id].json

\* C9: a request that ends because a database call of step (1), (2) or (4)
\* returned context.Canceled has written neither a status nor a body.
C9_CancellationSilent ==
    \A r \in Reqs :
        rq[r].pc = "done" /\ rq[r].cause = "context.Canceled"
            => rq[r].status = 0 /\ rq[r].body = NoBody

\* The arrays of a Response are all there and counted.
Complete(resp) ==
    /\ IsUnfiltered(resp.id, resp)
    /\ resp = updateCounts(resp)

\* C10: a request that ends by cancellation, by a 404 or by a 500 of steps
\* (1) to (6) has not called Cache.Set, and the cache changes only by a purge
\* or in step (7) of a request, to the encoding of its complete Response.
C10_NoPartialCacheEntry ==
    [][/\ \A r \in Reqs :
             /\ rq'[r].pc = "done"
             /\ \/ rq'[r].status \in {0, 404}
                \/ rq'[r].at \in {"1", "2", "3", "4", "5", "6"}
             => /\ ~rq'[r].cacheSet
                /\ rq[r].pc # "done" => cache' = cache
       /\ cache' # cache =>
             \/ cache' = [id \in RequestIDs |-> NoEntry]
             \/ \E r \in Reqs :
                   /\ rq[r].pc = "s7" /\ rq'[r].pc = "s8" /\ rq'[r].cacheSet
                   /\ Complete(rq'[r].response)
                   /\ cache' = [cache EXCEPT ![rq[r].id] =
                                   JsonBody(Encode(rq'[r].response))]
      ]_vars

\* A request failed in step (6) and the entry stored earlier is still there.
C10_Witness ==
    \E r \in Reqs :
        /\ rq[r].pc = "done" /\ rq[r].at = "6" /\ rq[r].status = 500
        /\ cacheMode = "rw"
        /\ cache[rq[r].id] # NoEntry

\* A filtered response was served, live or from a cache hit.
FilteredServed(r) ==
    rq[r].pc = "done" /\ rq[r].status = 200 /\ rq[r].isil # ""

\* The element is a blob of the index data (not a synthetic object) whose
\* own institution array contains isil.
HeldBy(e, isil) ==
    /\ "hasInst" \in DOMAIN e.b
    /\ e.b.hasInst
    /\ sliceContains(e.b.inst, isil)

\* C11: whatever the snippet pool holds from blobs parsed earlier, in every
\* filtered response each blob left in citing or cited has an institution
\* array of its own that contains isil, and no blob whose array contains
\* isil is in the unmatched arrays; a blob without institution member is
\* always among the unmatched.
C11_FilterIgnoresPool ==
    \A r \in Reqs :
        FilteredServed(r) =>
            LET d == Served(r)
            IN /\ \A e \in Range(d.citing) \cup Range(d.cited) :
                     HeldBy(e, rq[r].isil)
               /\ \A e \in Range(d.unmatchedCiting) \cup Range(d.unmatchedCited) :
                     ~HeldBy(e, rq[r].isil)

\* ------------------------------- applyInstitutionFilter called on its own
\* Longest citing and cited array of a Response handed to the filter.
MaxFilterLen == 2

\* The blobs of the index data as elements of a Response.
FilterElements == {Hydrated([k |-> "L2", v |-> "D2"], b) : b \in Blobs}

\* Sequences over S of length 0..n.
SeqsUpTo(S, n) == UNION {[1..k -> S] : k \in 0..n}

\* Responses as the pipeline or the decoder of the cache path hands them to
\* the filter: blobs in citing and cited, synthetic objects or blobs moved
\* earlier in the unmatched arrays.
FilterInputs ==
    {updateCounts([NewResponse("L1") EXCEPT
                      !.doi = SubjectDOI, !.citing = c, !.cited = d,
                      !.unmatchedCiting = u]) :
        c \in SeqsUpTo(FilterElements, MaxFilterLen),
        d \in SeqsUpTo(FilterElements, MaxFilterLen),
        u \in {<<>>, <<Synthetic("D3")>>}}

\* What snippetPool can hold when the filter is called: Snippets last used
\* for a blob held by DE-14, by DE-15, or none.
FilterPools == SUBSET {<<"DE-14">>, <<"DE-15">>}

\* r.applyInstitutionFilter(institution), the n-th time on the same Response.
ApplyFilter ==
    /\ call.fn = "applyInstitutionFilter"
    /\ call.n < 2
    /\ \E f \in applyInstitutionFilter(call.r, call.institution, snippetPool) :
          /\ call' = [call EXCEPT !.r = f.response, !.n = @ + 1]
          /\ snippetPool' = f.pool
    /\ UNCHANGED <<stores, bufs, cache, rq, lastLive>>

InitFilter ==
    /\ bufPool = {}
    /\ buffers = [b \in BufIDs |-> NoBuf]
    /\ identTable = [l \in LocalIDs |-> NoRow]
    /\ ociTable = {}
    /\ indexData = [l \in LocalIDs |-> NotFoundBlob]
    /\ cacheMode = "off"
    /\ cache = [id \in RequestIDs |-> NoEntry]
    /\ rq = [r \in Reqs |-> Idle]
    /\ lastLive = [i \in {""} \cup ISILs |-> NoEntry]
    /\ snippetPool \in FilterPools
    /\ \E r \in FilterInputs, i \in ISILs :
          call = [fn |-> "applyInstitutionFilter", r |-> r, institution |-> i,
                  n |-> 0]

NextFilter == ApplyFilter

SpecFilter == InitFilter /\ [][NextFilter]_vars

\* The elements of s that the institution holds, in order, and the others.
RECURSIVE HeldOf(_, _)
HeldOf(s, isil) ==
    IF s = <<>> THEN <<>>
    ELSE (IF HeldBy(Head(s), isil) THEN <<Head(s)>> ELSE <<>>)
         \o HeldOf(Tail(s), isil)

RECURSIVE NotHeldOf(_, _)
NotHeldOf(s, isil) ==
    IF s = <<>> THEN <<>>
    ELSE (IF HeldBy(Head(s), isil) THEN <<>> ELSE <<Head(s)>>)
         \o NotHeldOf(Tail(s), isil)

\* C12: one application of the filter to a Response of valid JSON blobs
\* leaves in citing exactly the former citing elements whose institution
\* array contains isil, in order, appends the others to unmatched.citing,
\* does the same for cited, keeps both sums of lengths, moves nothing
\* between the directions, recomputes the counts and sets extra.institution.
C12_FilterEffect ==
    [][call.fn = "applyInstitutionFilter" /\ call.n = 0 /\ call'.n = 1 =>
          LET a == call.r
              b == call'.r
              isil == call.institution
          IN /\ b.citing = HeldOf(a.citing, isil)
             /\ b.unmatchedCiting = a.unmatchedCiting \o NotHeldOf(a.citing, isil)
             /\ b.cited = HeldOf(a.cited, isil)
             /\ b.unmatchedCited = a.unmatchedCited \o NotHeldOf(a.cited, isil)
             /\ Len(b.citing) + Len(b.unmatchedCiting)
                   = Len(a.citing) + Len(a.unmatchedCiting)
             /\ Len(b.cited) + Len(b.unmatchedCited)
                   = Len(a.cited) + Len(a.unmatchedCited)
             /\ b = updateCounts(b)
             /\ b.institution = isil
      ]_vars

\* C13: a second application of the filter with the same isil leaves the
\* Response (arrays, counts, institution) as the first application left it.
C13_FilterIdempotent ==
    [][call.fn = "applyInstitutionFilter" /\ call.n = 1 /\ call'.n = 2 =>
          call'.r = call.r
      ]_vars

\* The rows of the identifier table with a DOI in S whose blob is missing
\* from the index data (Fetch returns ErrBlobNotFound).
LidsMissing(S) ==
    {l \in LocalIDs : identTable[l] \in S /\ "notfound" \in DOMAIN indexData[l]}

\* Everything a Response carries, in its four arrays.
AllElements(d) ==
    Range(d.citing) \cup Range(d.cited)
        \cup Range(d.unmatchedCiting) \cup Range(d.unmatchedCited)

\* C14, as stated: in a successful live response the DOI of a row whose blob
\* is missing appears in none of the four arrays.
C14_MissingDOIAbsent ==
    \A r \in Reqs :
        LiveOK(r) =>
            LET d == Served(r)
                universe == OutboundOf(d.doi) \cup InboundOf(d.doi)
            IN \A l \in LidsMissing(universe) :
                  identTable[l] \notin {e.doi : e \in AllElements(d)}

\* C14, amended: a row whose blob is missing contributes no element to a
\* successful live response and its DOI gets no synthetic object; the DOI
\* is in the arrays exactly when another row of the same DOI has a blob; and
\* in the unfiltered response citing and cited are the blobs of the rows
\* that have one, as if the rows without did not exist.
C14_SkipsMissingRow ==
    \A r \in Reqs :
        LiveOK(r) =>
            LET d == Served(r)
                out == OutboundOf(d.doi)
                inOnly == InboundOf(d.doi) \ out
            IN /\ \A l \in LidsMissing(out \cup inOnly) :
                     /\ \A e \in AllElements(d) : e.lid # l
                     /\ Synthetic(identTable[l]) \notin AllElements(d)
                     /\ identTable[l] \in {e.doi : e \in AllElements(d)}
                           <=> LidsFound({identTable[l]}) # {}
               /\ rq[r].isil = "" =>
                     /\ Range(d.citing) = {ElementOf(l) : l \in LidsFound(out)}
                     /\ Len(d.citing) = Cardinality(LidsFound(out))
                     /\ Range(d.cited) = {ElementOf(l) : l \in LidsFound(inOnly)}
                     /\ Len(d.cited) = Cardinality(LidsFound(inOnly))

\* HTTP 200 although the blob of the first of two rows of an outbound DOI is
\* missing: the second row's blob is in citing.
C14_Witness ==
    \E r \in Reqs :
        /\ LiveOK(r) /\ rq[r].isil = ""
        /\ "Fetch" \in rq[r].calls
        /\ \E l \in LidsMissing(OutboundOf(rq[r].doi)) :
              /\ l = "L2"
              /\ identTable[l] \in DoisOf(Served(r).citing)

\* C15: a request whose id resolves to a DOI without outbound and inbound
\* edges ends in step (3) with HTTP 404 and no body, unless the edges query
\* itself fails: it has called neither mapToLocal nor Fetch nor Cache.Set
\* and there is no cache entry for its id; and only such a request ends in
\* step (3).
C15_EmptyEdgeSet ==
    \A r \in Reqs :
        /\ rq[r].doi # "" /\ OutboundOf(rq[r].doi) \cup InboundOf(rq[r].doi) = {}
              => \/ rq[r].pc = "s2"
                 \/ rq[r].pc = "done" /\ rq[r].at = "2"
                 \/ /\ rq[r].pc = "done" /\ rq[r].at = "3"
                    /\ rq[r].status = 404 /\ rq[r].body = NoBody
                    /\ rq[r].calls = {"GetContext", "edges"}
                    /\ rq[r].ids = <<>>
                    /\ ~rq[r].cacheSet
                    /\ cache[rq[r].id] = NoEntry
        /\ rq[r].pc = "done" /\ rq[r].at = "3"
              => OutboundOf(rq[r].doi) \cup InboundOf(rq[r].doi) = {}

\* A server with a writable cache answered 404 without body in step (3).
C15_Witness ==
    \E r \in Reqs :
        /\ rq[r].pc = "done" /\ rq[r].at = "3"
        /\ rq[r].status = 404 /\ rq[r].body = NoBody
        /\ rq[r].doi = SubjectDOI
        /\ cacheMode = "rw"

\* C16: a request that missed the cache and whose id has no row in the
\* identifier table ends in step (1), with HTTP 404 and the error body of
\* status 404 when the lookup reports no row; a lookup failing otherwise
\* (not by cancellation) ends it with HTTP 500 and the error body of status
\* 500; either way the lookup is the only query made.
C16_Step1ErrorMapping ==
    \A r \in Reqs :
        /\ rq[r].pc = "done" /\ rq[r].at = "1" =>
              /\ rq[r].cause = "sql.ErrNoRows"
                    => rq[r].status = 404 /\ rq[r].body = ErrorBody(404)
              /\ rq[r].cause = "other"
                    => rq[r].status = 500 /\ rq[r].body = ErrorBody(500)
              /\ rq[r].calls = {"GetContext"}
              /\ rq[r].path = ""
        /\ rq[r].pc \notin {"idle", "probe", "s1"} /\ LookupDOI(rq[r].id) = NoRow
              => rq[r].pc = "done" /\ rq[r].at = "1"
        /\ rq[r].cause = "sql.ErrNoRows" => LookupDOI(rq[r].id) = NoRow

\* The unknown id was answered with 404 and the error body.
C16_Witness ==
    \E r \in Reqs :
        /\ rq[r].pc = "done" /\ rq[r].at = "1"
        /\ rq[r].id = UnknownID
        /\ rq[r].status = 404 /\ rq[r].body = ErrorBody(404)

\* The store calls made when the handler is in, or returned from, a step.
CallsUpTo(at) ==
    CASE at = "2" -> {"GetContext", "edges"}
      [] at = "4" -> {"GetContext", "edges", "mapToLocal"}
      [] at = "6" -> {"GetContext", "edges", "mapToLocal", "Fetch"}

\* C17: a request ended by an error, other than cancellation, of the edges
\* queries (2), of a batch of mapToLocal (4) or of a Fetch (6, other than
\* ErrBlobNotFound) has written HTTP 500 with the error body of status 500
\* and no Response, has made no call of a later step and has not called
\* Cache.Set; and every response with a Response body comes from a request
\* none of whose calls failed.
C17_StoreFailuresAre500 ==
    \A r \in Reqs :
        /\ rq[r].pc = "done" /\ rq[r].cause = "other" /\ rq[r].at \in {"2", "4", "6"}
              => /\ rq[r].status = 500 /\ rq[r].body = ErrorBody(500)
                 /\ rq[r].calls = CallsUpTo(rq[r].at)
                 /\ ~rq[r].cacheSet
        /\ rq[r].pc = "done" /\ rq[r].body.kind = "json"
              => rq[r].cause = "" /\ rq[r].status = 200

\* A batch of mapToLocal failed: 500, after the lookup and the edges queries.
C17_Witness ==
    \E r \in Reqs :
        /\ rq[r].pc = "done" /\ rq[r].at = "4" /\ rq[r].cause = "other"
        /\ rq[r].status = 500
        /\ "mapToLocal" \in rq[r].calls

\* ------------------------------------------- mapToLocal called on its own
\* Longest slice of DOIs handed to mapToLocal, and the largest of the small
\* batch sizes tried.
MaxDois == 3
MaxSmallBatch == 3

\* The values of size: small ones that split the slice, the one of the code
\* and the largest the comment allows.
BatchSizes == (1..MaxSmallBatch) \cup {BatchSize, VariableLimit}

\* mapToLocal(ctx, dois), with size as the call record says.
CallMapToLocal ==
    /\ call.fn = "mapToLocal"
    /\ ~call.done
    /\ call' = [call EXCEPT
                   !.done = TRUE,
                   !.batches = batchedStrings(call.dois, call.size),
                   !.failed = mapToLocalInFails(call.dois, call.size),
                   !.result = IF mapToLocalInFails(call.dois, call.size)
                              THEN <<>>
                              ELSE mapToLocalSized(call.dois, call.size)]
    /\ UNCHANGED <<stores, bufs, cache, snippetPool, rq, lastLive>>

InitBatch ==
    /\ bufPool = {}
    /\ buffers = [b \in BufIDs |-> NoBuf]
    /\ identTable \in IdentTables
    /\ ociTable = {}
    /\ indexData = [l \in LocalIDs |-> NotFoundBlob]
    /\ cacheMode = "off"
    /\ cache = [id \in RequestIDs |-> NoEntry]
    /\ snippetPool = {}
    /\ rq = [r \in Reqs |-> Idle]
    /\ lastLive = [i \in {""} \cup ISILs |-> NoEntry]
    /\ \E dois \in SeqsUpTo(DOIs, MaxDois), size \in BatchSizes :
          call = [fn |-> "mapToLocal", dois |-> dois, size |-> size,
                  done |-> FALSE, batches |-> <<>>, failed |-> FALSE,
                  result |-> <<>>]

NextBatch == CallMapToLocal

SpecBatch == InitBatch /\ [][NextBatch]_vars

\* The slices that hold the elements of xs in another order.
Reorderings(xs) ==
    {[i \in 1..Len(xs) |-> xs[p[i]]] : p \in Perms(1..Len(xs))}

NoDuplicates(xs) == Cardinality(Range(xs)) = Len(xs)

\* The rows of the identifier table whose DOI is in S.
RowsOf(S) == {[k |-> l, v |-> identTable[l]] : l \in {x \in LocalIDs : identTable[x] \in S}}

\* C18, as stated: for every slice xs, duplicates included, every
\* reordering of xs and every batch size gives the multiset of rows that
\* mapToLocal(xs) returned.
C18_BatchingInvariance ==
    call.fn = "mapToLocal" /\ call.done /\ ~call.failed =>
        \A ys \in Reorderings(call.dois), n \in BatchSizes :
            /\ ~mapToLocalInFails(ys, n)
            /\ SeqToBag(mapToLocalSized(ys, n)) = SeqToBag(call.result)

\* C18, amended: mapToLocal fails for the empty slice only, whatever the
\* batch size; for every other slice xs the rows returned are, as a set, the
\* rows of the table whose DOI is in xs, whatever the order and the batch
\* size; for a slice without duplicates every such row is returned exactly
\* once, so the multiset is the same for every reordering and every batch
\* size.
C18_BatchingInvarianceNoDuplicates ==
    call.fn = "mapToLocal" /\ call.done =>
        /\ call.failed <=> call.dois = <<>>
        /\ ~call.failed =>
              /\ Range(call.result) = RowsOf(Range(call.dois))
              /\ NoDuplicates(call.dois) =>
                    /\ Len(call.result) = Cardinality(RowsOf(Range(call.dois)))
                    /\ \A ys \in Reorderings(call.dois), n \in BatchSizes :
                          /\ ~mapToLocalInFails(ys, n)
                          /\ SeqToBag(mapToLocalSized(ys, n)) = SeqToBag(call.result)

\* Three different DOIs in two batches, rows found by both queries.
C18_Witness ==
    /\ call.fn = "mapToLocal" /\ call.done
    /\ NoDuplicates(call.dois) /\ Len(call.dois) = 3 /\ call.size = 2
    /\ Len(call.result) = 3
    /\ call.result[3].v = call.dois[3]

\* ------------------------------------------------------- GET /doi/{doi}
\* A DOI the identifier table has no row for.
UnknownDOI == "DX"
RequestDOIs == DOIs \cup {UnknownDOI}

\* The query of handleDOI with its WHERE clause lost.
KeysOfAny(doi) == {l \in LocalIDs : identTable[l] # NoRow}

\* SELECT k FROM map WHERE v = doi: the keys of the rows found.
KeysOf(doi) == {l \in LocalIDs : identTable[l] = doi}

\* http.Error(w, `{"msg": "no id found", "status": 404}`, http.StatusNotFound)
NoIdFoundBody == [kind |-> "fixed", msg |-> "no id found", status |-> 404]

\* http.Redirect(w, r, "/id/" + id, ...) after Content-Type: text/plain.
RedirectBody(id) ==
    [kind |-> "redirect", location |-> [path |-> "/id/", id |-> id],
     contentType |-> "text/plain"]

\* The switch of handleDOI on the error of the lookup.
DOIErrorStatus(err) == IF err = ErrCanceled THEN 0 ELSE 404

\* A request GET /doi/{doi} arrives: the var block of handleDOI.
ReceiveDOI(r) ==
    /\ rq[r].pc = "idle"
    /\ \E doi \in RequestDOIs :
          rq' = [rq EXCEPT ![r] = [Idle EXCEPT !.pc = "doi", !.path = "doi",
                                               !.doi = doi,
                                               !.response = [NewResponse("") EXCEPT
                                                                !.doi = doi]]]
    /\ UNCHANGED <<stores, bufs, call, cache, snippetPool, lastLive>>

\* The handler to its end: GetContext scans the first row of the result
\* into response.ID, or returns an error.
HandleDOI(r) ==
    /\ rq[r].pc = "doi"
    /\ \/ \E k \in KeysOf(rq[r].doi) :
             rq' = [rq EXCEPT ![r] =
                      Return([Called(@, "GetContext") EXCEPT !.response.id = k],
                             "doi", 307, RedirectBody(k))]
       \/ /\ KeysOf(rq[r].doi) = {}
          /\ rq' = [rq EXCEPT ![r] =
                      [Return(Called(@, "GetContext"), "doi",
                              DOIErrorStatus(ErrNoRows), NoIdFoundBody)
                          EXCEPT !.cause = ErrNoRows.is]]
       \/ \E err \in {ErrCanceled, ErrOther} :
             rq' = [rq EXCEPT ![r] =
                      [Return(Called(@, "GetContext"), "doi", DOIErrorStatus(err),
                              IF DOIErrorStatus(err) = 0 THEN NoBody
                              ELSE NoIdFoundBody)
                          EXCEPT !.cause = err.is]]
    /\ UNCHANGED <<stores, bufs, call, cache, snippetPool, lastLive>>

\* The server of GET /doi alone: the identifier table is all it reads.
InitDOI ==
    /\ identTable \in IdentTables
    /\ ociTable = {}
    /\ indexData = [l \in LocalIDs |-> NotFoundBlob]
    /\ cacheMode = "off"
    /\ cache = [id \in RequestIDs |-> NoEntry]
    /\ snippetPool = {}
    /\ rq = [r \in Reqs |-> Idle]
    /\ lastLive = [i \in {""} \cup ISILs |-> NoEntry]
    /\ call = NoCall
    /\ bufPool = {}
    /\ buffers = [b \in BufIDs |-> NoBuf]

\* Requests are served side by side.
NextDOI ==
    \/ \E r \in Reqs : ReceiveDOI(r)
    \/ \E r \in Reqs : HandleDOI(r)
    \/ \E r \in Reqs : Finish(r)

SpecDOI == InitDOI /\ [][NextDOI]_vars

\* C19: a GET /doi/{doi} whose lookup ran without error is answered with 307,
\* Location /id/<k> and Content-Type text/plain when the identifier table
\* has a row (k, doi), and with 404 and the fixed JSON body when it has none;
\* and whatever happens, a redirect goes to an id that maps to the DOI asked
\* for.
C19_DOIRedirect ==
    \A r \in Reqs :
        rq[r].pc = "done" /\ rq[r].path = "doi" =>
            /\ rq[r].status = 307 =>
                  /\ rq[r].body.kind = "redirect"
                  /\ rq[r].body.location.path = "/id/"
                  /\ rq[r].body.location.id \in LocalIDs
                  /\ identTable[rq[r].body.location.id] = rq[r].doi
                  /\ rq[r].body.contentType = "text/plain"
            /\ rq[r].cause \notin {"context.Canceled", "other"} =>
                  /\ (\E l \in LocalIDs : identTable[l] = rq[r].doi)
                        => rq[r].status = 307
                  /\ (\A l \in LocalIDs : identTable[l] # rq[r].doi)
                        => rq[r].status = 404 /\ rq[r].body = NoIdFoundBody

\* A DOI with two rows was redirected to the second of them while a request
\* for the unknown DOI got 404.
C19_Witness ==
    \E r, q \in Reqs :
        /\ rq[r].pc = "done" /\ rq[r].path = "doi" /\ rq[r].status = 307
        /\ identTable["L2"] = rq[r].doi
        /\ rq[r].body.location.id = "L3"
        /\ rq[q].pc = "done" /\ rq[q].doi = UnknownDOI /\ rq[q].status = 404

\* Step (5) of the live pipeline is behind the request.
PastStep5(r) ==
    /\ rq[r].path \in {"", "live"}
    /\ \/ rq[r].pc \in {"s6", "s7", "s8"}
       \/ rq[r].pc = "done" /\ rq[r].at \in {"6", "7"}

\* C20: after step (5) unmatched.citing holds exactly one synthetic object
\* for every outbound DOI that no reverse-map row has, unmatched.cited
\* exactly one for every other DOI of the universe that no row has (an
\* inbound one), a DOI with a row has none, and the default branch of the
\* switch is never taken.
C20_UnmatchedBookkeeping ==
    \A r \in Reqs :
        /\ rq[r].path # "panic"
        /\ PastStep5(r) =>
              LET resp == rq[r].response
                  matched == {rq[r].ids[i].v : i \in 1..Len(rq[r].ids)}
                  universe == rq[r].outbound \cup rq[r].inbound
                  rest == universe \ matched
              IN /\ universe = OutboundOf(rq[r].doi) \cup InboundOf(rq[r].doi)
                 /\ Range(resp.unmatchedCiting)
                       = {Synthetic(d) : d \in rest \cap rq[r].outbound}
                 /\ Len(resp.unmatchedCiting)
                       = Cardinality(rest \cap rq[r].outbound)
                 /\ Range(resp.unmatchedCited)
                       = {Synthetic(d) : d \in rest \ rq[r].outbound}
                 /\ Len(resp.unmatchedCited)
                       = Cardinality(rest \ rq[r].outbound)
                 /\ rest \ rq[r].outbound \subseteq rq[r].inbound
                 /\ \A d \in matched :
                       Synthetic(d) \notin Range(resp.unmatchedCiting)
                                           \cup Range(resp.unmatchedCited)

\* After step (5): one synthetic object for an outbound DOI without row and
\* one for a DOI without row that is inbound only.
C20_Witness ==
    \E r \in Reqs :
        /\ rq[r].pc = "s6"
        /\ Len(rq[r].response.unmatchedCited) = 1
        /\ Len(rq[r].response.unmatchedCiting) = 1

\* ------------------- tools/spindel: step (5) of its handleLocalIdentifier
\* The synthetic object of the spindel handler: {"doi": "<doi>"}.
SpindelSynthetic(d) == [lid |-> "", doi |-> d, b |-> [doi |-> d]]

\* The if of the loop: outbound.Contains(k) appends to Unmatched.Cited, the
\* else branch to Unmatched.Citing.
SpindelUnmatchedTarget(k, outbound) ==
    IF k \in outbound THEN "cited" ELSE "citing"

RECURSIVE SpindelClassify(_, _)
\* The loop over unmatchedSet in the order given: [citing, cited].
SpindelClassify(order, outbound) ==
    IF order = <<>> THEN [citing |-> <<>>, cited |-> <<>>]
    ELSE LET rest == SpindelClassify(Tail(order), outbound)
             b == SpindelSynthetic(Head(order))
         IN IF SpindelUnmatchedTarget(Head(order), outbound) = "citing"
            THEN [rest EXCEPT !.citing = <<b>> \o @]
            ELSE [rest EXCEPT !.cited = <<b>> \o @]

\* Step (5) of the spindel handler, on the sets of step (3) and the rows of
\* step (4).
SpindelStep5 ==
    /\ call.fn = "spindel.step5"
    /\ ~call.done
    /\ \E order \in Perms(UnmatchedSet(call.outbound \cup call.inbound, call.ids)) :
          LET u == SpindelClassify(order, call.outbound)
          IN call' = [call EXCEPT !.done = TRUE,
                                  !.unmatchedCiting = u.citing,
                                  !.unmatchedCited = u.cited]
    /\ UNCHANGED <<stores, bufs, cache, snippetPool, rq, lastLive>>

\* The handler at step (5): the edge sets are not both empty (step 3 returns
\* 404 then) and ids are the rows of the identifier table for their DOIs.
InitSpindel ==
    /\ bufPool = {}
    /\ buffers = [b \in BufIDs |-> NoBuf]
    /\ identTable \in [LocalIDs -> DOIs \cup {NoRow}]
    /\ ociTable = {}
    /\ indexData = [l \in LocalIDs |-> NotFoundBlob]
    /\ cacheMode = "off"
    /\ cache = [id \in RequestIDs |-> NoEntry]
    /\ snippetPool = {}
    /\ rq = [r \in Reqs |-> Idle]
    /\ lastLive = [i \in {""} \cup ISILs |-> NoEntry]
    /\ \E outbound \in SUBSET OtherDOIs, inbound \in SUBSET OtherDOIs :
          /\ outbound \cup inbound # {}
          /\ call = [fn |-> "spindel.step5", outbound |-> outbound,
                     inbound |-> inbound,
                     ids |-> SelectRows(IdentRows, outbound \cup inbound),
                     done |-> FALSE,
                     unmatchedCiting |-> <<>>, unmatchedCited |-> <<>>]

NextSpindel == SpindelStep5

SpecSpindel == InitSpindel /\ [][NextSpindel]_vars

\* C21: after step (5) of the spindel handler the object of an unmatched
\* DOI that is outbound is in unmatched.citing and not in unmatched.cited,
\* and the object of an unmatched DOI that is inbound only is in
\* unmatched.cited and not in unmatched.citing.
C21_SpindelUnmatched ==
    call.fn = "spindel.step5" /\ call.done =>
        \A d \in UnmatchedSet(call.outbound \cup call.inbound, call.ids) :
            /\ d \in call.outbound =>
                  /\ SpindelSynthetic(d) \in Range(call.unmatchedCiting)
                  /\ SpindelSynthetic(d) \notin Range(call.unmatchedCited)
            /\ d \notin call.outbound =>
                  /\ SpindelSynthetic(d) \in Range(call.unmatchedCited)
                  /\ SpindelSynthetic(d) \notin Range(call.unmatchedCiting)

\* ------------------------------------------------- cache admission
\* The request r, as record q, has made the calls of steps (1) to (4), found
\* at least one edge and reached step (7) on the live path.
ReachedStep7(q) ==
    /\ q.elapsed # NoTook
    /\ q.path # "hit"
    /\ {"GetContext", "edges", "mapToLocal"} \subseteq q.calls
    /\ q.outbound \cup q.inbound # {}

\* Cache.Set is called only with a cache, past step (6), above the trigger.
SetOnlyIf(q) ==
    q.cacheSet => cacheMode # "off" /\ ReachedStep7(q)
                  /\ q.elapsed > CacheTriggerDuration

\* At or below the trigger: no Cache.Set, no change of the cache in step
\* (7), and cached = false in the response and in the body served.
BelowTrigger(r) ==
    rq'[r].elapsed # NoTook /\ rq'[r].elapsed <= CacheTriggerDuration =>
        /\ ~rq'[r].cacheSet
        /\ rq'[r].response.cached = FALSE
        /\ rq'[r].body.kind = "json" => rq'[r].body.json["extra"]["cached"] = FALSE
        /\ rq[r].pc = "s7" => cache' = cache

\* C22 as stated: Cache.Set is called if and only if the cache is
\* configured, the request was a miss, steps (1) to (6) succeeded with a
\* non-empty edge set and the elapsed time of step (7) is strictly greater
\* than CacheTriggerDuration; a request at or below CacheTriggerDuration
\* never changes the cache and is served with cached = false.
C22_CacheAdmission ==
    [][\A r \in Reqs :
          /\ SetOnlyIf(rq'[r])
          /\ cacheMode # "off" /\ ReachedStep7(rq'[r])
             /\ rq'[r].elapsed > CacheTriggerDuration => rq'[r].cacheSet
          /\ BelowTrigger(r)
      ]_vars

\* C22 amended: Cache.Set is called if and only if the cache is configured,
\* the request was a miss, steps (1) to (6) succeeded with a non-empty edge
\* set, the elapsed time of step (7) is strictly greater than
\* CacheTriggerDuration and compressing and encoding the Response did not
\* return an error first (the request then ends with HTTP 500 and Cache.Set
\* is not called); a request at or below CacheTriggerDuration never changes
\* the cache and is served with cached = false.
C22_CacheAdmissionUnlessEncodeFails ==
    [][\A r \in Reqs :
          /\ SetOnlyIf(rq'[r])
          /\ cacheMode # "off" /\ ReachedStep7(rq'[r])
             /\ rq'[r].elapsed > CacheTriggerDuration
             /\ ~(rq'[r].at = "7" /\ rq'[r].cause = ErrCompress.is)
             => rq'[r].cacheSet
          /\ rq'[r].at = "7" /\ rq'[r].cause = ErrCompress.is =>
                ~rq'[r].cacheSet /\ rq'[r].status = 500
          /\ BelowTrigger(r)
      ]_vars

\* Cache.Set has been called and the request goes on to step (8).
C22_Witness ==
    \E r \in Reqs : rq[r].pc = "s8" /\ rq[r].cacheSet /\ cache[rq[r].id] # NoEntry

\* C23: when Cache.Set returns cache.ErrReadOnly the request goes on and is
\* answered with HTTP 200 and the arrays and counts it has when Cache.Set
\* succeeds, the cache unchanged and the body carrying cached = true; when
\* Cache.Set, the compression or the encoding returns any other error the
\* request ends with HTTP 500 and the error body, without a Response.
C23_ReadOnlyIsNoError ==
    [][\A r \in Reqs :
          /\ rq[r].pc = "s7" /\ rq'[r].cacheSet =>
                /\ \E t \in 0..MaxElapsed :
                      rq'[r].response = [updateCounts(rq[r].response)
                                            EXCEPT !.took = t, !.cached = TRUE]
                /\ cacheMode = "ro" => rq'[r].pc = "s8" /\ cache' = cache
                /\ rq'[r].pc = "done" =>
                      /\ rq'[r].cause # ErrReadOnly.is
                      /\ cache' = cache
          /\ rq[r].pc = "s7" /\ rq'[r].pc = "done" =>
                /\ rq'[r].at = "7" /\ rq'[r].status = 500
                /\ rq'[r].body = ErrorBody(500)
          /\ rq[r].pc = "s8" /\ rq[r].cacheSet /\ rq'[r].pc = "done" =>
                /\ rq'[r].status = 200
                /\ rq'[r].body = JsonBody(Encode(rq'[r].response))
                /\ rq'[r].body.json["extra"]["cached"] = TRUE
                /\ cache' = cache
      ]_vars

\* A read-only cache: Cache.Set was called, the cache is still empty and the
\* request was answered with 200 and cached = true.
C23_Witness ==
    \E r \in Reqs :
        /\ cacheMode = "ro" /\ rq[r].cacheSet /\ rq[r].pc = "done"
        /\ rq[r].status = 200 /\ rq[r].body.json["extra"]["cached"] = TRUE
        /\ cache[rq[r].id] = NoEntry

\* C24: when Cache.Get succeeds the request ends at the probe, with 200 or
\* with 500, having made no identifier-table query, no citation-table query,
\* no blob fetch and no Cache.Set, with i set or not, and the cache is as it
\* was; any other outcome of the probe (no cache, or an error of Cache.Get)
\* lets the live pipeline run from step (1), nothing answered yet.
C24_HitEndsPipeline ==
    [][\A r \in Reqs :
          /\ rq[r].pc = "probe" /\ rq'[r] # rq[r] =>
                /\ cache' = cache
                /\ \/ /\ rq'[r].pc = "s1" /\ rq'[r].path = ""
                      /\ rq'[r].status = 0 /\ rq'[r].body = NoBody
                   \/ /\ rq'[r].pc = "done" /\ rq'[r].path = "hit"
                      /\ cacheMode # "off" /\ cache[rq[r].id] # NoEntry
                      /\ rq'[r].status \in {200, 500}
          /\ rq'[r].path = "hit" =>
                /\ rq'[r].pc = "done" /\ rq'[r].at = "0"
                /\ rq'[r].calls = {} /\ ~rq'[r].cacheSet
                /\ rq'[r].elapsed = NoTook
      ]_vars

\* A hit with i set that ended in 500.
C24_Witness ==
    \E r \in Reqs :
        /\ rq[r].path = "hit" /\ rq[r].isil # "" /\ rq[r].status = 500
        /\ rq[r].calls = {}

\* C26: GET /doi/{doi} reports a lookup error that is neither sql.ErrNoRows
\* nor a cancellation as HTTP 500, and answers 404 only when the row is
\* missing.
C26_DOIAbsenceVsFailure ==
    \A r \in Reqs :
        rq[r].pc = "done" /\ rq[r].path = "doi" =>
            /\ rq[r].cause = ErrOther.is => rq[r].status = 500
            /\ rq[r].status = 404 => rq[r].cause = ErrNoRows.is

\* ------------------------------------------------------ batchedStrings
RECURSIVE Concat(_)
\* The batches appended in order.
Concat(bs) == IF bs = <<>> THEN <<>> ELSE Head(bs) \o Concat(Tail(bs))

\* What C28 says of the batches bs made of ss with batch size n.
WellBatched(bs, ss, n) ==
    /\ Len(bs) >= 1
    /\ Concat(bs) = ss
    /\ \A i \in 1..Len(bs) : Len(bs[i]) <= n
    /\ \A i \in 1..(Len(bs) - 1) : Len(bs[i]) = n
    /\ ss # <<>> => \A i \in 1..Len(bs) : bs[i] # <<>>
    /\ ss = <<>> => bs = << <<>> >>

\* A slice longer than two batches of mapToLocal.
LongSlice == [i \in 1..(2 * BatchSize + 1) |-> "D2"]

\* C28: for n >= 1 batchedStrings(ss, n) returns batches whose
\* concatenation in order is ss, each no longer than n, all but the last of
\* length n, none empty when ss is not empty and a single empty batch when
\* it is; and no batch of mapToLocal, whose n is 500, has more than 500
\* elements.
C28_BatchedStrings ==
    /\ call.fn = "mapToLocal" /\ call.done =>
          /\ call.size >= 1
          /\ WellBatched(call.batches, call.dois, call.size)
          /\ \A i \in 1..Len(batchedStrings(call.dois, BatchSize)) :
                Len(batchedStrings(call.dois, BatchSize)[i]) <= 500
    /\ call.fn = "mapToLocal" =>
          /\ WellBatched(batchedStrings(LongSlice, BatchSize), LongSlice, BatchSize)
          /\ \A i \in 1..Len(batchedStrings(LongSlice, BatchSize)) :
                Len(batchedStrings(LongSlice, BatchSize)[i]) <= 500

\* Three DOIs in batches of two: a full batch and a last one of one.
C28_Witness ==
    /\ call.fn = "mapToLocal" /\ call.done
    /\ Len(call.dois) = 3 /\ call.size = 2
    /\ Len(call.batches) = 2 /\ Len(call.batches[1]) = 2 /\ Len(call.batches[2]) = 1

\* ------------------------------------------- filter on broken data
\* C27: when applyInstitutionFilter runs on a response one of whose blobs in
\* citing or cited is not valid JSON, on the live path or on a cache hit, the
\* handler ends by the panic "internal data broken" with no status and no
\* byte of a body written; no body served with a filter applied holds such
\* a blob.
C27_FilterPanicsOnBrokenBlob ==
    [][\A r \in Reqs :
          /\ rq[r].pc = "s8" /\ rq[r].isil # "" /\ HasBrokenBlob(rq[r].response)
             /\ rq'[r] # rq[r]
             => /\ rq'[r].pc = "done" /\ rq'[r].at = "8"
                /\ rq'[r].cause = "internal data broken"
                /\ rq'[r].status = 0 /\ rq'[r].body = NoBody
          /\ rq[r].pc = "probe" /\ rq[r].isil # "" /\ rq'[r].path = "hit"
             /\ HasBrokenBlob(Decode(cache[rq[r].id].json))
             => rq'[r].body.kind # "json"
          /\ rq'[r].body.kind = "json" /\ rq'[r].isil # "" =>
                ~EncodeFails(Decode(rq'[r].body.json))
      ]_vars

\* The filter of step (8) has panicked on the blob of L3.
C27_Witness ==
    \E r \in Reqs :
        /\ rq[r].pc = "done" /\ rq[r].at = "8" /\ rq[r].isil # ""
        /\ rq[r].cause = "internal data broken"
        /\ rq[r].status = 0 /\ rq[r].body = NoBody
        /\ HasBrokenBlob(rq[r].response)

\* ------------------------------------- step (7) of concurrent requests
\* Step (7) up to the call of Cache.Set: the test of line 504, bufPool.Get,
\* buf.Reset and the writes of the zstd writer into the buffer.
Step7Begin(r) ==
    /\ rq[r].pc = "s7"
    /\ \E took \in 0..MaxElapsed :
       \E elapsed \in took..MaxElapsed :
          LET resp == [updateCounts(rq[r].response) EXCEPT !.took = took]
              stamped == [resp EXCEPT !.cached = TRUE]
          IN \/ /\ ~Triggered(elapsed)
                /\ rq' = [rq EXCEPT ![r].pc = "s8", ![r].response = resp,
                                    ![r].elapsed = elapsed]
                /\ UNCHANGED bufs
             \/ /\ Triggered(elapsed)
                /\ \E b \in bufPoolGet :
                      /\ bufPool' = bufPoolTake(bufPool, b)
                      /\ \/ /\ ~EncodeFails(stamped)
                            /\ buffers' = [buffers EXCEPT ![b] =
                                  Written(Reset(b), CacheBody(stamped))]
                            /\ rq' = [rq EXCEPT ![r].pc = "s7set",
                                                ![r].response = stamped,
                                                ![r].elapsed = elapsed,
                                                ![r].buf = b]
                         \/ \* zstd.NewWriter, Encode or zw.Close returns an
                            \* error: wrap() returns it
                            /\ buffers' = [buffers EXCEPT ![b] = PartialBuf]
                            /\ rq' = [rq EXCEPT ![r].pc = "s7put",
                                                ![r].response = stamped,
                                                ![r].elapsed = elapsed,
                                                ![r].buf = b,
                                                ![r].cause = ErrCompress.is]
    /\ UNCHANGED <<stores, call, cache, snippetPool, lastLive>>

\* s.Cache.Set(response.ID, buf.Bytes())
Step7Set(r) ==
    /\ rq[r].pc = "s7set"
    /\ LET bytes == buffers[rq[r].buf]
           q == [rq[r] EXCEPT !.pc = "s7put", !.cacheSet = TRUE, !.setArg = bytes]
       IN \/ /\ cacheMode = "rw"
             /\ rq' = [rq EXCEPT ![r] = q]
             /\ cache' = [cache EXCEPT ![rq[r].id] = bytes]
          \/ /\ \E err \in CacheSetErrors :
                   rq' = [rq EXCEPT ![r] =
                             IF SetErrorIsFatal(err)
                             THEN [q EXCEPT !.cause = err.is]
                             ELSE q]
             /\ cache' = cache
    /\ UNCHANGED <<stores, bufs, call, snippetPool, lastLive>>

\* wrap() returns: the deferred bufPool.Put(buf), then the test of its error.
Step7Put(r) ==
    /\ rq[r].pc = "s7put"
    /\ bufPool' = bufPool \cup {rq[r].buf}
    /\ buffers' = [buffers EXCEPT ![rq[r].buf] = StaleBuf]
    /\ rq' = [rq EXCEPT ![r] =
                IF rq[r].cause = ""
                THEN [@ EXCEPT !.pc = "s8", !.buf = ""]
                ELSE Return([@ EXCEPT !.buf = ""], "7", 500, ErrorBody(500))]
    /\ UNCHANGED <<stores, call, cache, snippetPool, lastLive>>

\* A server with a writable cache and two requests in flight.
InitConc ==
    /\ identTable = [l \in LocalIDs |->
                        CASE l = "L1" -> SubjectDOI [] l = "L2" -> "D2" [] OTHER -> NoRow]
    /\ ociTable \in {{<<SubjectDOI, "D2">>}, {<<SubjectDOI, "D2">>, <<"D3", SubjectDOI>>}}
    /\ indexData \in {x \in IndexDatas : x["L2"] = BlobHeld /\ x["L3"] = NotFoundBlob}
    /\ cacheMode = "rw"
    /\ cache = [id \in RequestIDs |-> NoEntry]
    /\ snippetPool = {}
    /\ rq = [r \in Reqs |-> Idle]
    /\ lastLive = [i \in {""} \cup ISILs |-> NoEntry]
    /\ call = NoCall
    /\ bufPool = {}
    /\ buffers = [b \in BufIDs |-> NoBuf]

NextConc ==
    \E r \in Reqs :
        \/ Receive(r)
        \/ CacheMiss(r)
        \/ CacheHitCopy(r)
        \/ CacheHitFilter(r)
        \/ CacheHitFails(r)
        \/ Step1(r)
        \/ Step2(r)
        \/ Step4(r)
        \/ Step5(r)
        \/ Step6(r)
        \/ Step7Begin(r)
        \/ Step7Set(r)
        \/ Step7Put(r)
        \/ Step89(r)
        \/ Finish(r)

SpecConc == InitConc /\ [][NextConc]_vars


\* C25: of requests in flight together, each calls Cache.Set with the
\* complete encoding of its own Response, held in a buffer that is not in
\* bufPool and that no other request holds; the cache changes only to the
\* body one request handed to Cache.Set, whole (the last call wins); and a
\* buffer goes back to bufPool only when wrap() returns, after Cache.Set has
\* returned.
C25_ConcurrentSet ==
    [][/\ \A r \in Reqs :
             /\ rq[r].pc = "s7set" /\ rq'[r].pc = "s7put" =>
                   /\ rq'[r].cacheSet
                   /\ rq'[r].setArg = CacheBody(rq[r].response)
                   /\ Complete(rq[r].response)
                   /\ rq[r].buf \notin bufPool
                   /\ \A o \in Reqs \ {r} : rq[o].buf # rq[r].buf
                   /\ cache' \in {cache,
                                  [cache EXCEPT ![rq[r].id] = CacheBody(rq[r].response)]}
             /\ rq[r].buf # "" /\ rq'[r].buf = "" =>
                   /\ rq[r].pc = "s7put"
                   /\ rq[r].cacheSet \/ rq[r].cause = ErrCompress.is
                   /\ bufPool' = bufPool \cup {rq[r].buf}
             /\ rq'[r].buf # "" => rq'[r].buf \notin bufPool'
       /\ cache' # cache =>
             \E r \in Reqs :
                /\ rq[r].pc = "s7set"
                /\ cache' = [cache EXCEPT ![rq[r].id] = CacheBody(rq[r].response)]
       /\ \A id \in RequestIDs :
             cache'[id] # NoEntry =>
                /\ cache'[id].kind = "json"
                /\ Complete(Decode(cache'[id].json))
      ]_vars

\* Two requests for L1 have both missed and both called Cache.Set with
\* different bodies; the entry is the body of one of them.
C25_Witness ==
    \E r \in Reqs, o \in Reqs :
        /\ r # o
        /\ rq[r].id = "L1" /\ rq[o].id = "L1"
        /\ rq[r].cacheSet /\ rq[o].cacheSet
        /\ rq[r].setArg # rq[o].setArg
        /\ rq[r].buf # "" /\ rq[o].buf # "" /\ rq[r].buf # rq[o].buf
        /\ cache["L1"] = rq[o].setArg

=============================================================================
